---- MODULE Spec2Model ----
(***************************************************************************)
(* cassandra_snapshotter: the snapshot manifest model, the snapshot        *)
(* registry (SnapshotCollection) and the cluster backup orchestrator       *)
(* (run_backup / BackupWorker), modelled from                              *)
(*   src/cassandra_snapshotter/snapshotting.py                             *)
(*   src/cassandra_snapshotter/main.py                                     *)
(*                                                                         *)
(* Conventions                                                             *)
(*  - An object-store key or path is the sequence of its "/"-separated     *)
(*    segments: "a/b" is <<"a","b">>, "a/" is <<"a","">>, "a//b" is        *)
(*    <<"a","","b">>.  '/'.join([p, q]) is therefore p \o q, and           *)
(*    '%s/' % p is p \o <<"">>.                                            *)
(*    Keys are read and written through boto's S3Connection, whose         *)
(*    request path drops empty segments (get_path below).                  *)
(*  - A comma-joined keyspaces string is the sequence of its names:        *)
(*    "" is <<>>, "ks1,ks2" is <<"ks1","ks2">>; its truth value is         *)
(*    Len > 0 and split(",") is the sequence itself.                       *)
(*  - fabric's execute() under settings(parallel=True, pool_size=n) runs   *)
(*    one job per host of env.hosts, at most n at a time, waits for all    *)
(*    of them and then aborts (raises) if any job failed.                  *)
(***************************************************************************)
EXTENDS Integers, Sequences, FiniteSets, TLC

VARIABLES
    store,        \* the bucket: a function from keys to object contents
    s3_base_path, \* args.s3_base_path / SnapshotCollection.base_path
    snapshots,    \* SnapshotCollection.snapshots: None or a list
    listings,     \* number of bucket.list calls made by the collection
    populated,    \* "no", or how the last listing by _read_s3 ended
    ret,          \* outcome of the last registry access
    ncalls,       \* number of registry accesses made so far
    args,         \* the parsed command line of the backup command
    opts,         \* run_backup's keep_new_snapshot, delete_old_snapshots, delete_backups
    called,       \* the BackupWorker method run_backup called ("" before)
    snapshot,     \* the Snapshot the backup worker operates on, or None
    pc,           \* the statement the orchestrator is at
    pending,      \* the failure held while a cleanup step runs ("" if none)
    raised,       \* the failure that reached the caller ("" if none)
    jobs,         \* execute(): the state of the current step's job on each host
    running,      \* the commands executing on the hosts
    trace,        \* the cluster steps completed and the objects written, in order
    relisted,     \* what a later list command read from the bucket, or None
    rargs,        \* restore: keyspace, table, hosts, target_hosts, local_source, merge_dir
    files,        \* restore: the keys of the bucket, or the files of local_source, in order
    matched,      \* restore: keys, tables and total_size, once found
    rpc,          \* restore: the statement RestoreWorker._restore is at
    work,         \* restore: the state and attempts of the transfer of each key
    consumed,     \* restore: the number of results the loop of _download_keys has taken
    read_bytes,   \* restore: read_bytes of _download_keys
    merge,        \* restore: the files under merge_dir, each with the key it was written from
    loads,        \* restore: the sstableloader commands run, in order
    rraised       \* restore: the failure that ended the restore ("" if none)

regvars == <<store, s3_base_path, snapshots, listings, populated, ret, ncalls>>

runvars == <<args, opts, called, snapshot, pc, pending, raised, jobs, running, trace>>

restorevars == <<rargs, files, matched, rpc, work, consumed, read_bytes, merge,
                 loads, rraised>>

othervars == <<relisted, restorevars>>

vars == <<store, s3_base_path, snapshots, listings, populated, ret, ncalls,
          args, opts, called, snapshot, pc, pending, raised, jobs, running,
          trace, othervars>>

----------------------------------------------------------------------------
(* Bounds of the model *)

\* number of snapshot directories the bucket may hold under the base path
MaxDirs == 2

\* number of accesses made to one SnapshotCollection instance
MaxCalls == 3

\* number of hosts of the cluster that is backed up
MaxHosts == 2

----------------------------------------------------------------------------
(* Python values *)

None == [none |-> TRUE]

Some(v) == [none |-> FALSE, val |-> v]

\* truth value of SnapshotCollection.snapshots (None and [] are both false)
Truthy(l) == (~l.none) /\ Len(l.val) > 0

Last(s) == s[Len(s)]

----------------------------------------------------------------------------
(* Snapshot names: '%Y%m%d%H%M%S' timestamps *)

\* the characters of the names the model uses (TLA+ strings are atomic);
\* a name that is absent is not a string of 14 digits
NameDigits ==
    [n \in {"20230101000000", "20230601120000", "20230601120001",
            "20231301000000", "20231201093000"} |->
        CASE n = "20230101000000" -> <<2,0,2,3,0,1,0,1,0,0,0,0,0,0>>
          [] n = "20230601120000" -> <<2,0,2,3,0,6,0,1,1,2,0,0,0,0>>
          [] n = "20230601120001" -> <<2,0,2,3,0,6,0,1,1,2,0,0,0,1>>
          [] n = "20231301000000" -> <<2,0,2,3,1,3,0,1,0,0,0,0,0,0>>
          [] n = "20231201093000" -> <<2,0,2,3,1,2,0,1,0,9,3,0,0,0>>]

IsLeap(y) == (y % 4 = 0 /\ y % 100 # 0) \/ y % 400 = 0

DaysInMonth(y, m) ==
    IF m = 2 THEN (IF IsLeap(y) THEN 29 ELSE 28)
    ELSE IF m \in {4, 6, 9, 11} THEN 30 ELSE 31

\* datetime.strptime(name, SNAPSHOT_TIMESTAMP_FORMAT): the fields, or a
\* ValueError
strptime(name) ==
    IF name \notin DOMAIN NameDigits THEN [ok |-> FALSE]
    ELSE
        LET d  == NameDigits[name]
            y  == d[1] * 1000 + d[2] * 100 + d[3] * 10 + d[4]
            mo == d[5] * 10 + d[6]
            dd == d[7] * 10 + d[8]
            h  == d[9] * 10 + d[10]
            mi == d[11] * 10 + d[12]
            s  == d[13] * 10 + d[14]
        IN  IF /\ y >= 1 /\ mo \in 1..12 /\ dd >= 1 /\ dd <= DaysInMonth(y, mo)
               /\ h <= 23 /\ mi <= 59 /\ s <= 59
            THEN [ok |-> TRUE, y |-> y, mo |-> mo, d |-> dd, h |-> h,
                  mi |-> mi, s |-> s]
            ELSE [ok |-> FALSE]

RECURSIVE DaysBeforeYear(_)
DaysBeforeYear(y) ==
    IF y <= 1970 THEN 0
    ELSE DaysBeforeYear(y - 1) + (IF IsLeap(y - 1) THEN 366 ELSE 365)

RECURSIVE DaysBeforeMonth(_, _)
DaysBeforeMonth(y, m) ==
    IF m <= 1 THEN 0 ELSE DaysBeforeMonth(y, m - 1) + DaysInMonth(y, m - 1)

\* time.mktime(dt.timetuple()), in seconds, for a process whose local time
\* is UTC
mktime(t) ==
    (DaysBeforeYear(t.y) + DaysBeforeMonth(t.y, t.mo) + (t.d - 1)) * 86400
        + t.h * 3600 + t.mi * 60 + t.s

\* Snapshot.unix_time_name, in seconds: the code's factor 1000 is a change
\* of unit that takes the value beyond TLC's 32-bit integers and does not
\* change any comparison
unix_time_name(s) ==
    LET t == strptime(s.name)
    IN  IF t.ok THEN [ok |-> TRUE, val |-> mktime(t)] ELSE [ok |-> FALSE]

\* Snapshot.__cmp__(a, b): the difference of the two times, or a ValueError
cmp(a, b) ==
    LET ta == unix_time_name(a)
        tb == unix_time_name(b)
    IN  IF ta.ok /\ tb.ok THEN [ok |-> TRUE, val |-> ta.val - tb.val]
        ELSE [ok |-> FALSE]

----------------------------------------------------------------------------
(* Manifest model *)

ManifestKeys == {"name", "base_path", "hosts", "keyspaces", "table"}

\* Snapshot.__init__ followed by the assignment of a name
Snapshot(base_path, s3_bucket, hosts, keyspaces, table, name) ==
    [name |-> name, base_path |-> base_path, s3_bucket |-> s3_bucket,
     hosts |-> hosts, keyspaces |-> keyspaces, table |-> table]

\* the property Snapshot.base_path: '/'.join([self._base_path, self.name])
SnapshotBasePath(s) == s.base_path \o <<s.name>>

\* Snapshot.dump_manifest_file: the JSON document of the five attributes
dump_manifest_file(s) ==
    [kind |-> "json",
     obj  |-> [name |-> s.name, base_path |-> s.base_path, hosts |-> s.hosts,
               keyspaces |-> s.keyspaces, table |-> s.table]]

\* a load_manifest_file that keeps the name Snapshot.__init__ gives, the
\* time of the call
load_manifest_file_new_name(data, s3_bucket) ==
    IF data.kind # "json" THEN [ok |-> FALSE]
    ELSE IF ~(ManifestKeys \subseteq DOMAIN data.obj) THEN [ok |-> FALSE]
    ELSE [ok |-> TRUE,
          val |-> Snapshot(data.obj.base_path, s3_bucket, data.obj.hosts,
                           data.obj.keyspaces, data.obj.table, "20231201093000")]

\* Snapshot.load_manifest_file: json.loads raises on a non-JSON body, the
\* subscripts raise on a document that lacks one of the five keys
load_manifest_file(data, s3_bucket) ==
    IF data.kind # "json" THEN [ok |-> FALSE]
    ELSE IF ~(ManifestKeys \subseteq DOMAIN data.obj) THEN [ok |-> FALSE]
    ELSE [ok |-> TRUE,
          val |-> Snapshot(data.obj.base_path, s3_bucket, data.obj.hosts,
                           data.obj.keyspaces, data.obj.table, data.obj.name)]

----------------------------------------------------------------------------
(* The object store *)

s3_bucket == "bucket"

\* The request path boto's S3Connection builds for a key (AWSAuthConnection.
\* get_path): the connections of this program are made with the default
\* suppress_consec_slashes, so the empty segments of a key are dropped,
\* except a trailing one ("a/b//manifest.json" reads "a/b/manifest.json")
get_path(path) ==
    LET kept == SelectSeq(path, LAMBDA seg : seg # "")
    IN  IF Len(kept) > 0 /\ Last(path) = "" THEN kept \o <<"">> ELSE kept

\* str.startswith for a prefix that ends with "/" (its last segment is "")
StartsWith(k, prefix) ==
    /\ Len(k) >= Len(prefix)
    /\ \A i \in 1..(Len(prefix) - 1) : k[i] = prefix[i]

\* the characters of a path segment, for the segments a listing orders
Chars(seg) == IF seg \in DOMAIN NameDigits THEN NameDigits[seg] ELSE <<>>

RECURSIVE LexLess(_, _)
LexLess(a, b) ==
    IF Len(b) = 0 THEN FALSE
    ELSE IF Len(a) = 0 THEN TRUE
    ELSE IF a[1] # b[1] THEN a[1] < b[1]
    ELSE LexLess(Tail(a), Tail(b))

\* the name bucket.list(prefix, delimiter='/') yields for key k: the key
\* itself when nothing after the prefix holds a "/", else the common prefix
\* up to and including that "/"
ListedName(k, prefix) ==
    IF Len(k) > Len(prefix)
    THEN SubSeq(k, 1, Len(prefix)) \o <<"">>
    ELSE k

RECURSIVE InKeyOrder(_, _)
InKeyOrder(S, at) ==
    IF S = {} THEN <<>>
    ELSE LET m == CHOOSE x \in S :
                    \A y \in S \ {x} :
                        \/ LexLess(Chars(x[at]), Chars(y[at]))
                        \/ x[at] = y[at] /\ Len(x) < Len(y)
         IN  <<m>> \o InKeyOrder(S \ {m}, at)

\* bucket.list(prefix=prefix, delimiter='/'): the distinct names, in key
\* order (the names differ in the segment that follows the prefix)
BucketList(st, prefix) ==
    InKeyOrder({ListedName(k, prefix) :
                    k \in {x \in DOMAIN st : StartsWith(x, prefix)}},
               Len(prefix))

\* key.set_contents_from_string(content) on bucket.new_key(path)
Put(st, path, content) ==
    [k \in DOMAIN st \cup {get_path(path)} |->
        IF k = get_path(path) THEN content ELSE st[k]]

----------------------------------------------------------------------------
(* SnapshotCollection *)

\* sorted(l, reverse=True) with Snapshot.__cmp__: a stable descending
\* sort; every element of a list of two or more is compared, so one name
\* that does not parse raises ValueError
RECURSIVE InsertDesc(_, _)
InsertDesc(l, x) ==
    IF Len(l) = 0 THEN <<x>>
    ELSE IF cmp(l[1], x).val >= 0 THEN <<l[1]>> \o InsertDesc(Tail(l), x)
    ELSE <<x>> \o l

RECURSIVE SortDesc(_)
SortDesc(l) ==
    IF Len(l) = 0 THEN <<>>
    ELSE InsertDesc(SortDesc(SubSeq(l, 1, Len(l) - 1)), l[Len(l)])

sorted_reverse(l) ==
    IF Len(l) >= 2 /\ \E i \in 1..Len(l) : ~unix_time_name(l[i]).ok
    THEN [ok |-> FALSE]
    ELSE [ok |-> TRUE, val |-> SortDesc(l)]

\* s3prefix of _read_s3
S3Prefix(base_path) ==
    IF Last(base_path) # "" THEN base_path \o <<"">> ELSE base_path

\* manifest_path of _read_s3: '/'.join([snap_path, 'manifest.json'])
ManifestPath(snap_path) == snap_path \o <<"manifest.json">>

\* snap_paths of _read_s3: the listed names except the prefix itself
SnapPaths(st, base_path) ==
    SelectSeq(BucketList(st, S3Prefix(base_path)),
              LAMBDA x : x # S3Prefix(base_path))

\* the loop of _read_s3 over snap_paths: a manifest that is absent
\* (S3ResponseError) or does not load is skipped
RECURSIVE LoadManifests(_, _)
LoadManifests(st, snap_paths) ==
    IF Len(snap_paths) = 0 THEN <<>>
    ELSE
        LET manifest_path == get_path(ManifestPath(snap_paths[1]))
            rest == LoadManifests(st, Tail(snap_paths))
        IN  IF manifest_path \notin DOMAIN st THEN rest
            ELSE LET r == load_manifest_file(st[manifest_path], s3_bucket)
                 IN  IF r.ok THEN <<r.val>> \o rest ELSE rest

\* SnapshotCollection._read_s3 on a collection whose snapshots field is
\* snaps: whether the bucket was listed, whether it raised, and the field
\* afterwards (a raising sort leaves the unsorted list assigned)
ReadS3(snaps, st, base_path) ==
    IF Truthy(snaps)
    THEN [listed |-> FALSE, raised |-> FALSE, snapshots |-> snaps]
    ELSE
        LET snap_paths == SnapPaths(st, base_path)
            loaded     == LoadManifests(st, snap_paths)
            srt        == sorted_reverse(loaded)
        IN  IF srt.ok
            THEN [listed |-> TRUE, raised |-> FALSE, snapshots |-> Some(srt.val)]
            ELSE [listed |-> TRUE, raised |-> TRUE, snapshots |-> Some(loaded)]

\* the loop of get_snapshot_for over the list
RECURSIVE FirstCompatible(_, _, _, _)
FirstCompatible(l, hosts, keyspaces, table) ==
    IF Len(l) = 0 THEN None
    ELSE IF l[1].hosts # hosts THEN FirstCompatible(Tail(l), hosts, keyspaces, table)
    ELSE IF l[1].keyspaces # keyspaces THEN FirstCompatible(Tail(l), hosts, keyspaces, table)
    ELSE IF l[1].table # table THEN FirstCompatible(Tail(l), hosts, keyspaces, table)
    ELSE Some(l[1])

----------------------------------------------------------------------------
(* Contents of the bucket before a command runs *)

DirNames == <<"20230101000000", "20230601120000", "20230601120001">>

Dirs == {DirNames[i] : i \in 1..MaxDirs}

HostsA == <<"h1", "h2">>

HostsB == <<"h2", "h1">>

\* manifests a snapshot directory d may hold: written for that directory,
\* or carrying another directory's name or a name that is no timestamp
ManifestsOf(d, base_path) ==
    {dump_manifest_file(Snapshot(base_path, s3_bucket, ht[1], <<"ks1">>, ht[2], n)) :
        ht \in {<<HostsA, "">>, <<HostsA, "cf1">>, <<HostsB, "">>},
        n \in {d, DirNames[1], "20231301000000"}}

\* the objects under snapshot directory d: nothing, data files only, or
\* data files and an object at <base_path>/<d>/manifest.json (a manifest, a
\* document that lacks a key, or a body that is not JSON)
DirObjects(d, base_path) ==
    LET datakey  == get_path(base_path \o <<d, "h1", "ks1", "cf1", "data.db">>)
        data     == <<datakey, [kind |-> "data"]>>
        manifest == get_path(base_path \o <<d, "manifest.json">>)
    IN  {{}, {data}}
        \cup {{data, <<manifest, m>>} : m \in ManifestsOf(d, base_path)}
        \cup {{data, <<manifest, [kind |-> "bytes"]>>},
              {data, <<manifest, [kind |-> "json",
                                  obj |-> [name |-> d, base_path |-> base_path,
                                           hosts |-> HostsA, keyspaces |-> <<"ks1">>]]>>}}

MkStore(pairs) ==
    [k \in {p[1] : p \in pairs} |-> (CHOOSE p \in pairs : p[1] = k)[2]]

RECURSIVE StoresOver(_, _)
StoresOver(ds, base_path) ==
    IF ds = {} THEN {{}}
    ELSE LET d == CHOOSE x \in ds : TRUE
         IN  {a \cup b : a \in DirObjects(d, base_path),
                         b \in StoresOver(ds \ {d}, base_path)}

\* with or without an object for the base path itself ("<base_path>/")
RegistryStores(base_path) ==
    {MkStore(o \cup r) :
        o \in StoresOver(Dirs, base_path),
        r \in {{}, {<<S3Prefix(base_path), [kind |-> "data"]>>}}}

----------------------------------------------------------------------------
(* Accesses to one SnapshotCollection instance *)

\* no other command has run
RestoreIdle ==
    /\ rargs = None
    /\ files = <<>>
    /\ matched = None
    /\ rpc = "idle"
    /\ work = <<>>
    /\ consumed = 0
    /\ read_bytes = 0
    /\ merge = {}
    /\ loads = <<>>
    /\ rraised = ""

OtherIdle == relisted = None /\ RestoreIdle

NoRet == [op |-> "none", raised |-> "", val |-> None]

RegInit ==
    /\ s3_base_path \in {<<"backups">>, <<"backups", "">>}
    /\ store \in RegistryStores(s3_base_path)
    /\ snapshots = None
    /\ listings = 0
    /\ populated = "no"
    /\ ret = NoRet
    /\ ncalls = 0
    /\ args = None
    /\ opts = None
    /\ called = ""
    /\ snapshot = None
    /\ pc = "registry"
    /\ pending = ""
    /\ raised = ""
    /\ jobs = <<>>
    /\ running = {}
    /\ trace = <<>>
    /\ OtherIdle

\* the effect of the self._read_s3() that opens every access
Populate(r) ==
    /\ snapshots' = r.snapshots
    /\ listings' = listings + (IF r.listed THEN 1 ELSE 0)
    /\ populated' = IF ~r.listed THEN populated
                    ELSE IF r.raised THEN "failed" ELSE "yes"
    /\ ncalls' = ncalls + 1
    /\ UNCHANGED <<othervars, store, s3_base_path>>
    /\ UNCHANGED runvars

\* SnapshotCollection.__iter__
Iterate ==
    /\ ncalls < MaxCalls
    /\ LET r == ReadS3(snapshots, store, s3_base_path)
       IN  /\ Populate(r)
           /\ ret' = IF r.raised
                     THEN [op |-> "iter", raised |-> "ValueError", val |-> None]
                     ELSE [op |-> "iter", raised |-> "", val |-> r.snapshots]

\* SnapshotCollection.get_latest
GetLatest ==
    /\ ncalls < MaxCalls
    /\ LET r == ReadS3(snapshots, store, s3_base_path)
       IN  /\ Populate(r)
           /\ ret' = IF r.raised
                     THEN [op |-> "get_latest", raised |-> "ValueError", val |-> None]
                     ELSE IF Len(r.snapshots.val) = 0
                     THEN [op |-> "get_latest", raised |-> "IndexError", val |-> None]
                     ELSE [op |-> "get_latest", raised |-> "", val |-> Some(r.snapshots.val[1])]

\* SnapshotCollection.get_snapshot_by_name: the first snapshot of that
\* name, or the empty list
GetSnapshotByName(name) ==
    /\ ncalls < MaxCalls
    /\ LET r == ReadS3(snapshots, store, s3_base_path)
           found == IF r.raised THEN <<>>
                    ELSE SelectSeq(r.snapshots.val, LAMBDA x : x.name = name)
       IN  /\ Populate(r)
           /\ ret' = IF r.raised
                     THEN [op |-> "get_snapshot_by_name", raised |-> "ValueError", val |-> None]
                     ELSE IF Len(found) = 0
                     THEN [op |-> "get_snapshot_by_name", raised |-> "", val |-> Some(<<>>)]
                     ELSE [op |-> "get_snapshot_by_name", raised |-> "", val |-> Some(found[1])]

\* SnapshotCollection.get_snapshot_for
GetSnapshotFor(hosts, keyspaces, table) ==
    /\ ncalls < MaxCalls
    /\ LET r == ReadS3(snapshots, store, s3_base_path)
       IN  /\ Populate(r)
           /\ ret' = IF r.raised
                     THEN [op |-> "get_snapshot_for", raised |-> "ValueError", val |-> None,
                           arg |-> <<hosts, keyspaces, table>>]
                     ELSE [op |-> "get_snapshot_for", raised |-> "",
                           val |-> FirstCompatible(r.snapshots.val, hosts, keyspaces, table),
                           arg |-> <<hosts, keyspaces, table>>]

RegNext ==
    \/ Iterate
    \/ GetLatest
    \/ \E n \in Dirs : GetSnapshotByName(n)
    \/ \E h \in {HostsA, HostsB}, t \in {"", "cf1"} : GetSnapshotFor(h, <<"ks1">>, t)

SpecRegistry == RegInit /\ [][RegNext]_vars

----------------------------------------------------------------------------
(* run_backup and BackupWorker *)

Range(s) == {s[i] : i \in DOMAIN s}

HostNames == <<"h1", "h2", "h3">>

\* args.hosts.split(','): the first n hosts of the cluster
EnvHosts(n) == [i \in 1..n |-> HostNames[i]]

\* datetime.utcnow() when the command runs, as make_snapshot_name formats it
UtcNow == "20231201093000"

\* BackupWorker.ALL_SNAPSHOTS
ALL_SNAPSHOTS == "__ALL_SNAPSHOTS__"

\* the command lines of the model.  A table is given with keyspaces only;
\* an empty data path is drawn only where the data path is read (a full run
\* with delete_backups).
BackupArgs ==
    {a \in [new_snapshot : BOOLEAN,
            keep_new_snapshot : BOOLEAN,
            delete_old_snapshots : BOOLEAN,
            delete_incremental_backups : BOOLEAN,
            backup_schema : BOOLEAN,
            hosts : {EnvHosts(n) : n \in 1..MaxHosts},
            keyspaces : {<<>>, <<"ks1", "ks2">>},
            table : {"", "cf1"},
            cassandra_data_path : {"", "/var/lib/cassandra/data/"},
            connection_pool_size : {1, 12}] :
        /\ a.table # "" => Len(a.keyspaces) > 0
        /\ a.cassandra_data_path = "" =>
              a.new_snapshot /\ a.delete_incremental_backups}

\* the bucket before a backup command with arguments a: empty, or holding
\* manifests of the same hosts, keyspaces and table as the command, of
\* another table, or named by no timestamp; a command that does not read
\* the registry (new_snapshot) is run on two of them
BackupStores(a, base_path) ==
    LET same(n)  == dump_manifest_file(Snapshot(base_path, s3_bucket, a.hosts,
                                                a.keyspaces, a.table, n))
        other(n) == dump_manifest_file(Snapshot(base_path, s3_bucket, a.hosts,
                                                a.keyspaces,
                                                IF a.table = "" THEN "cf1" ELSE "", n))
        manifest(d) == get_path(base_path \o <<d, "manifest.json">>)
        d1 == DirNames[1]
        d2 == DirNames[2]
    IN  {MkStore(o) : o \in
            IF a.new_snapshot
            THEN {{}, {<<manifest(d1), same(d1)>>}}
            ELSE {{},
                  {<<manifest(d1), same(d1)>>},
                  {<<manifest(d1), same(d1)>>, <<manifest(d2), same(d2)>>},
                  {<<manifest(d1), other(d1)>>},
                  {<<manifest(d1), same(d1)>>, <<manifest(d2), other(d2)>>},
                  {<<manifest(d1), same(d1)>>,
                   <<manifest(d2), same("20231301000000")>>}}}

\* a run_backup that passes the flags on as they were given
RunBackupOptsAsGiven(a) ==
    [keep_new_snapshot |-> a.keep_new_snapshot,
     delete_old_snapshots |-> a.delete_old_snapshots,
     delete_backups |-> a.delete_incremental_backups]

\* main.py, run_backup: the flags as passed on to BackupWorker.snapshot
RunBackupOpts(a) ==
    IF a.new_snapshot
    THEN [keep_new_snapshot |-> a.keep_new_snapshot,
          delete_old_snapshots |-> a.delete_old_snapshots,
          delete_backups |-> a.delete_incremental_backups]
    ELSE [keep_new_snapshot |->
              IF a.keep_new_snapshot THEN FALSE ELSE a.keep_new_snapshot,
          delete_old_snapshots |->
              IF a.delete_old_snapshots THEN FALSE ELSE a.delete_old_snapshots,
          delete_backups |->
              IF a.delete_incremental_backups THEN FALSE
              ELSE a.delete_incremental_backups]

(* Where the orchestrator goes next *)

Goto(p) == [pc |-> p, pending |-> "", raised |-> ""]

Cleanup(p, why) == [pc |-> p, pending |-> why, raised |-> ""]

Raise(why) == [pc |-> "failed", pending |-> "", raised |-> why]

\* a snapshot() that clears the backups whenever delete_backups is set
SnapshotEntryUnguarded(o, cassandra_data_path, snap) ==
    IF o.delete_backups THEN "clear_backups"
    ELSE IF o.delete_old_snapshots THEN "clear_old"
    ELSE "snapshot"

\* BackupWorker.snapshot, up to the first cluster step it runs
SnapshotEntry(o, cassandra_data_path, snap) ==
    IF o.delete_backups /\ cassandra_data_path # "" /\ Len(snap.keyspaces) > 0
    THEN "clear_backups"
    ELSE IF o.delete_old_snapshots THEN "clear_old"
    ELSE "snapshot"

\* after clear_cluster_backups
AfterClearBackups(ok, o) ==
    IF ~ok THEN Raise("clear_node_backups")
    ELSE IF o.delete_old_snapshots THEN Goto("clear_old")
    ELSE Goto("snapshot")

\* after clear_cluster_snapshot(ALL_SNAPSHOTS)
AfterClearOld(ok) ==
    IF ~ok THEN Raise("clear_node_snapshot") ELSE Goto("snapshot")

\* start_cluster_backup without the except block
AfterStartBackupNoCleanup(ok) ==
    IF ok THEN Goto("upload") ELSE Raise("node_start_backup")

\* try: start_cluster_backup ... except: clear_cluster_snapshot(name); raise
AfterStartBackup(ok) ==
    IF ok THEN Goto("upload") ELSE Cleanup("clear_failed", "node_start_backup")

\* the except block: a cleanup that fails replaces the held failure
AfterClearFailed(ok, pend) ==
    IF ok THEN Raise(pend) ELSE Raise("clear_node_snapshot")

\* upload_cluster_backups with the cleanup after the try block instead of
\* in a finally block
AfterUploadNoFinally(ok, o) ==
    IF ~ok THEN Raise("upload_node_backups")
    ELSE IF o.keep_new_snapshot THEN Goto("ring")
    ELSE Goto("clear_new")

\* try: upload_cluster_backups ... finally: if not keep_new_snapshot: ...
AfterUpload(ok, o) ==
    IF o.keep_new_snapshot
    THEN (IF ok THEN Goto("ring") ELSE Raise("upload_node_backups"))
    ELSE (IF ok THEN Goto("clear_new")
          ELSE Cleanup("clear_new", "upload_node_backups"))

\* a finally block that swallows the held failure
AfterClearNewSwallow(ok, pend) ==
    IF ~ok THEN Raise("clear_node_snapshot") ELSE Goto("ring")

\* the end of the finally block: a cleanup that fails replaces the held
\* failure, a held failure is re-raised, else the run goes on
AfterClearNew(ok, pend) ==
    IF ~ok THEN Raise("clear_node_snapshot")
    ELSE IF pend # "" THEN Raise(pend)
    ELSE Goto("ring")

\* BackupWorker.snapshot after the cluster step at pc `at` has returned
SnapshotNext(at, ok, o, pend) ==
    CASE at = "clear_backups" -> AfterClearBackups(ok, o)
      [] at = "clear_old"     -> AfterClearOld(ok)
      [] at = "snapshot"      -> AfterStartBackup(ok)
      [] at = "clear_failed"  -> AfterClearFailed(ok, pend)
      [] at = "upload"        -> AfterUpload(ok, o)
      [] at = "clear_new"     -> AfterClearNew(ok, pend)

\* BackupWorker.update_snapshot after start_cluster_backup
AfterFlush(ok) ==
    IF ok THEN Goto("u_upload") ELSE Raise("node_start_backup")

\* BackupWorker.update_snapshot after upload_cluster_backups
AfterIncrementalUpload(ok) ==
    IF ok THEN Goto("u_ring") ELSE Raise("upload_node_backups")

UpdateSnapshotNext(at, ok) ==
    CASE at = "u_flush"  -> AfterFlush(ok)
      [] at = "u_upload" -> AfterIncrementalUpload(ok)

SnapshotSteps ==
    {"clear_backups", "clear_old", "snapshot", "clear_failed", "upload", "clear_new"}

UpdateSteps == {"u_flush", "u_upload"}

(* The commands the steps run on a node *)

\* a node_start_backup with one command for both kinds of run
node_start_backup_snapshot_only(snap, incremental_backups) ==
    [task |-> "node_start_backup", cmd |-> "snapshot", name |-> snap.name,
     incremental |-> incremental_backups, dirs |-> {}]

\* BackupWorker.node_start_backup
node_start_backup(snap, incremental_backups) ==
    [task |-> "node_start_backup",
     cmd  |-> IF incremental_backups THEN "flush" ELSE "snapshot",
     name |-> IF incremental_backups THEN "" ELSE snap.name,
     incremental |-> incremental_backups, dirs |-> {}]

\* BackupWorker.upload_node_backups
upload_node_backups(snap, incremental_backups) ==
    [task |-> "upload_node_backups", cmd |-> "put", name |-> snap.name,
     incremental |-> incremental_backups, dirs |-> {}]

\* the keyspace directories of a node under cassandra_data_path, and the
\* tables of each that have a "backups" directory
NodeKeyspaces == <<"ks1", "ks2">>

NodeTables(ks) == IF ks = "ks1" THEN {"cf1", "cf2"} ELSE {"cf1"}

\* <cassandra_data_path>/<ks>/<table>/backups
BackupsDir(ks, table) == <<ks, table, "backups">>

\* the loop "for ks in keyspace_directories" of clear_node_backups: each
\* pass assigns backups_dirs
RECURSIVE BackupsDirsLoop(_, _, _)
BackupsDirsLoop(keyspace_directories, table, backups_dirs) ==
    IF Len(keyspace_directories) = 0 THEN backups_dirs
    ELSE LET ks == Head(keyspace_directories)
         IN  BackupsDirsLoop(Tail(keyspace_directories), table,
                             IF table # "" THEN {BackupsDir(ks, table)}
                             ELSE {BackupsDir(ks, t) : t \in NodeTables(ks)})

\* BackupWorker.clear_node_backups: the directories it empties
clear_node_backups(snap) ==
    [task |-> "clear_node_backups", cmd |-> "find -delete", name |-> "",
     incremental |-> FALSE,
     dirs |-> BackupsDirsLoop(IF Len(snap.keyspaces) > 0 THEN snap.keyspaces
                              ELSE NodeKeyspaces,
                              snap.table, {})]

\* BackupWorker.clear_node_snapshot: "clearsnapshot" of every snapshot, or
\* "clearsnapshot -t <name>"
clear_node_snapshot(snapshot_name) ==
    [task |-> "clear_node_snapshot", cmd |-> "clearsnapshot",
     name |-> IF snapshot_name = ALL_SNAPSHOTS THEN "" ELSE snapshot_name,
     incremental |-> FALSE, dirs |-> {}]

\* the task each cluster step executes on every host
StepCall(at, snap) ==
    CASE at = "clear_backups" -> clear_node_backups(snap)
      [] at = "clear_old"     -> clear_node_snapshot(ALL_SNAPSHOTS)
      [] at = "snapshot"      -> node_start_backup(snap, FALSE)
      [] at = "clear_failed"  -> clear_node_snapshot(snap.name)
      [] at = "upload"        -> upload_node_backups(snap, FALSE)
      [] at = "clear_new"     -> clear_node_snapshot(snap.name)
      [] at = "u_flush"       -> node_start_backup(snap, TRUE)
      [] at = "u_upload"      -> upload_node_backups(snap, TRUE)

(* fabric's execute(task, ...) with parallel=True, pool_size=n *)

\* an execute() that returns as soon as one job has failed
JoinedFailFast(js) ==
    \/ \E h \in DOMAIN js : js[h] = "failed"
    \/ \A h \in DOMAIN js : js[h] \in {"ok", "failed"}

\* every job of the step has ended
Joined(js) == \A h \in DOMAIN js : js[h] \in {"ok", "failed"}

\* an execute() that reports success when some job succeeded
StepOkAny(js) == \E h \in DOMAIN js : js[h] = "ok"

\* the step succeeded: no job failed
StepOk(js) == \A h \in DOMAIN js : js[h] = "ok"

StepEvent(at, call, hosts, failed) ==
    [ev |-> "step", at |-> at, task |-> call.task, cmd |-> call.cmd,
     name |-> call.name, incremental |-> call.incremental, dirs |-> call.dirs,
     hosts |-> hosts, failed |-> failed, key |-> <<>>]

PutEvent(at, key) ==
    [ev |-> "put", at |-> at, task |-> "write_on_s3", cmd |-> "",
     name |-> "", incremental |-> FALSE, dirs |-> {}, hosts |-> {}, failed |-> {},
     key |-> key]

----------------------------------------------------------------------------
(* The backup command *)

Init ==
    /\ s3_base_path \in {<<"backups">>, <<"backups", "">>}
    /\ args \in BackupArgs
    /\ store \in BackupStores(args, s3_base_path)
    /\ snapshots = None
    /\ listings = 0
    /\ populated = "no"
    /\ ret = NoRet
    /\ ncalls = 0
    /\ opts = None
    /\ called = ""
    /\ snapshot = None
    /\ pc = "start"
    /\ pending = ""
    /\ raised = ""
    /\ jobs = <<>>
    /\ running = {}
    /\ trace = <<>>
    /\ OtherIdle

\* main.py, run_backup, up to the call of worker.snapshot or
\* worker.update_snapshot
RunBackup ==
    /\ pc = "start"
    /\ LET o == RunBackupOpts(args)
           r == ReadS3(None, store, s3_base_path)
           existing_snapshot ==
               IF args.new_snapshot \/ r.raised THEN None
               ELSE FirstCompatible(r.snapshots.val, args.hosts,
                                    args.keyspaces, args.table)
           create_snapshot == args.new_snapshot \/ existing_snapshot.none
           new == Snapshot(s3_base_path, s3_bucket, args.hosts,
                           args.keyspaces, args.table, UtcNow)
       IN  /\ opts' = o
           /\ IF args.new_snapshot
              THEN UNCHANGED <<snapshots, listings, populated, ret, ncalls>>
              ELSE /\ snapshots' = r.snapshots
                   /\ listings' = listings + 1
                   /\ populated' = IF r.raised THEN "failed" ELSE "yes"
                   /\ ncalls' = ncalls + 1
                   /\ ret' = IF r.raised
                             THEN [op |-> "get_snapshot_for", raised |-> "ValueError",
                                   val |-> None,
                                   arg |-> <<args.hosts, args.keyspaces, args.table>>]
                             ELSE [op |-> "get_snapshot_for", raised |-> "",
                                   val |-> existing_snapshot,
                                   arg |-> <<args.hosts, args.keyspaces, args.table>>]
           /\ IF ~args.new_snapshot /\ r.raised
              THEN /\ pc' = "failed"
                   /\ raised' = "get_snapshot_for"
                   /\ called' = ""
                   /\ snapshot' = None
              ELSE IF create_snapshot
              THEN /\ pc' = SnapshotEntry(o, args.cassandra_data_path, new)
                   /\ raised' = ""
                   /\ called' = "snapshot"
                   /\ snapshot' = Some(new)
              ELSE /\ pc' = "u_flush"
                   /\ raised' = ""
                   /\ called' = "update_snapshot"
                   /\ snapshot' = existing_snapshot
    /\ UNCHANGED <<othervars, store, s3_base_path, args, pending, jobs, running, trace>>

\* execute(): one job per host of env.hosts is queued
Execute ==
    /\ pc \in SnapshotSteps \cup UpdateSteps
    /\ DOMAIN jobs = {}
    /\ jobs' = [h \in Range(args.hosts) |-> "queued"]
    /\ UNCHANGED <<othervars, store, s3_base_path, snapshots, listings, populated, ret,
                   ncalls, args, opts, called, snapshot, pc, pending, raised, running,
                   trace>>

\* a queued job starts on its host, at most pool_size at a time
NodeStart(h) ==
    /\ h \in DOMAIN jobs
    /\ jobs[h] = "queued"
    /\ Cardinality({j \in running : j.at = pc}) < args.connection_pool_size
    /\ jobs' = [jobs EXCEPT ![h] = "running"]
    /\ running' = running \cup
                    {[host |-> h, at |-> pc, call |-> StepCall(pc, snapshot.val)]}
    /\ UNCHANGED <<othervars, store, s3_base_path, snapshots, listings, populated, ret,
                   ncalls, args, opts, called, snapshot, pc, pending, raised, trace>>

\* the command of a job ends on its host, successfully or not
NodeEnd(h, ok) ==
    /\ \E j \in running :
          /\ j.host = h
          /\ running' = running \ {j}
          /\ jobs' = IF j.at = pc /\ h \in DOMAIN jobs
                     THEN [jobs EXCEPT ![h] = IF ok THEN "ok" ELSE "failed"]
                     ELSE jobs
    /\ UNCHANGED <<othervars, store, s3_base_path, snapshots, listings, populated, ret,
                   ncalls, args, opts, called, snapshot, pc, pending, raised, trace>>

\* execute() returns to BackupWorker.snapshot, or aborts
SnapshotStep ==
    /\ pc \in SnapshotSteps
    /\ DOMAIN jobs # {}
    /\ Joined(jobs)
    /\ LET next == SnapshotNext(pc, StepOk(jobs), opts, pending)
       IN  /\ pc' = next.pc
           /\ pending' = next.pending
           /\ raised' = next.raised
    /\ trace' = Append(trace, StepEvent(pc, StepCall(pc, snapshot.val), DOMAIN jobs,
                                        {h \in DOMAIN jobs : jobs[h] = "failed"}))
    /\ jobs' = <<>>
    /\ UNCHANGED <<othervars, store, s3_base_path, snapshots, listings, populated, ret,
                   ncalls, args, opts, called, snapshot, running>>

\* execute() returns to BackupWorker.update_snapshot, or aborts
UpdateSnapshotStep ==
    /\ pc \in UpdateSteps
    /\ DOMAIN jobs # {}
    /\ Joined(jobs)
    /\ LET next == UpdateSnapshotNext(pc, StepOk(jobs))
       IN  /\ pc' = next.pc
           /\ pending' = next.pending
           /\ raised' = next.raised
    /\ trace' = Append(trace, StepEvent(pc, StepCall(pc, snapshot.val), DOMAIN jobs,
                                        {h \in DOMAIN jobs : jobs[h] = "failed"}))
    /\ jobs' = <<>>
    /\ UNCHANGED <<othervars, store, s3_base_path, snapshots, listings, populated, ret,
                   ncalls, args, opts, called, snapshot, running>>

\* an update_snapshot that goes on to write the manifest
AfterRingManifest(at, backup_schema) == "manifest"

\* the statement that follows write_ring_description
AfterRing(at, backup_schema) ==
    IF at = "ring" THEN "manifest"
    ELSE IF backup_schema THEN "u_schema" ELSE "done"

\* BackupWorker.write_ring_description: the ring of env.hosts[0] is read
\* and written to <base_path>/<name>/ring; either call may fail
WriteRingDescription ==
    /\ pc \in {"ring", "u_ring"}
    /\ \E ok \in BOOLEAN :
          LET ring_path == SnapshotBasePath(snapshot.val) \o <<"ring">>
          IN  IF ok
              THEN /\ store' = Put(store, ring_path, [kind |-> "ring"])
                   /\ trace' = Append(trace, PutEvent(pc, ring_path))
                   /\ pc' = AfterRing(pc, args.backup_schema)
                   /\ raised' = ""
              ELSE /\ pc' = "failed"
                   /\ raised' = "write_ring_description"
                   /\ UNCHANGED <<store, trace>>
    /\ UNCHANGED <<othervars, s3_base_path, snapshots, listings, populated, ret, ncalls,
                   args, opts, called, snapshot, pending, jobs, running>>

\* BackupWorker.write_snapshot_manifest, and the test of backup_schema
\* that follows it in BackupWorker.snapshot
WriteSnapshotManifest ==
    /\ pc = "manifest"
    /\ \E ok \in BOOLEAN :
          LET manifest_path == SnapshotBasePath(snapshot.val) \o <<"manifest.json">>
          IN  IF ok
              THEN /\ store' = Put(store, manifest_path,
                                   dump_manifest_file(snapshot.val))
                   /\ trace' = Append(trace, PutEvent(pc, manifest_path))
                   /\ pc' = IF args.backup_schema THEN "schema" ELSE "done"
                   /\ raised' = ""
              ELSE /\ pc' = "failed"
                   /\ raised' = "write_snapshot_manifest"
                   /\ UNCHANGED <<store, trace>>
    /\ UNCHANGED <<othervars, s3_base_path, snapshots, listings, populated, ret, ncalls,
                   args, opts, called, snapshot, pending, jobs, running>>

\* "schema_%s.cdl" % ks
SchemaFile(ks) ==
    CASE ks = "ks1" -> "schema_ks1.cdl"
      [] ks = "ks2" -> "schema_ks2.cdl"

\* the documents write_schema writes: one per keyspace, or schema.cdl
SchemaPaths(snap) ==
    IF Len(snap.keyspaces) > 0
    THEN [i \in 1..Len(snap.keyspaces) |->
             SnapshotBasePath(snap) \o <<SchemaFile(snap.keyspaces[i])>>]
    ELSE <<SnapshotBasePath(snap) \o <<"schema.cdl">>>>

RECURSIVE PutAll(_, _, _)
PutAll(st, paths, content) ==
    IF Len(paths) = 0 THEN st
    ELSE PutAll(Put(st, paths[1], content), Tail(paths), content)

\* BackupWorker.write_schema: the loop writes the first n documents and
\* ends, or fails at document n + 1
WriteSchema ==
    /\ pc \in {"schema", "u_schema"}
    /\ LET paths == SchemaPaths(snapshot.val)
       IN  \E n \in 0..Len(paths) :
              /\ store' = PutAll(store, SubSeq(paths, 1, n), [kind |-> "schema"])
              /\ trace' = trace \o [i \in 1..n |-> PutEvent(pc, paths[i])]
              /\ IF n = Len(paths)
                 THEN pc' = "done" /\ raised' = ""
                 ELSE pc' = "failed" /\ raised' = "write_schema"
    /\ UNCHANGED <<othervars, s3_base_path, snapshots, listings, populated, ret, ncalls,
                   args, opts, called, snapshot, pending, jobs, running>>

\* main.py, list_backups, run once the backup command has ended: a new
\* SnapshotCollection is iterated; the keys it asks the bucket for are
\* kept as _read_s3 builds them
ListBackups ==
    /\ pc = "done"
    /\ relisted = None
    /\ LET r == ReadS3(None, store, s3_base_path)
           snap_paths == SnapPaths(store, s3_base_path)
       IN  relisted' = Some([raised |-> r.raised,
                             snapshots |-> r.snapshots.val,
                             requested |-> {ManifestPath(snap_paths[i]) :
                                               i \in DOMAIN snap_paths}])
    /\ UNCHANGED <<store, s3_base_path, snapshots, listings, populated, ret,
                   ncalls, args, opts, called, snapshot, pc, pending, raised,
                   jobs, running, trace, restorevars>>

Next ==
    \/ RunBackup
    \/ Execute
    \/ \E h \in Range(args.hosts) : NodeStart(h)
    \/ \E h \in Range(args.hosts), ok \in BOOLEAN : NodeEnd(h, ok)
    \/ SnapshotStep
    \/ UpdateSnapshotStep
    \/ WriteRingDescription
    \/ WriteSnapshotManifest
    \/ WriteSchema
    \/ ListBackups

Spec == Init /\ [][Next]_vars

----------------------------------------------------------------------------
(* Properties of the registry, under SpecRegistry *)

\* the listed entries whose manifest can be fetched and loads
GoodEntries ==
    {p \in {ListedName(k, S3Prefix(s3_base_path)) :
                k \in {x \in DOMAIN store : StartsWith(x, S3Prefix(s3_base_path))}} :
        /\ p # S3Prefix(s3_base_path)
        /\ get_path(p \o <<"manifest.json">>) \in DOMAIN store
        /\ load_manifest_file(store[get_path(p \o <<"manifest.json">>)], s3_bucket).ok}

\* C8: one SnapshotCollection instance lists the object store at most
\* once, whatever accesses are made and whatever the listing found.
C8_ListedAtMostOnce == listings <= 1

\* C9: whatever the listed entries are, population completes, and the list
\* holds exactly one Snapshot for each entry whose manifest can be fetched
\* and is well formed.
C9_BadEntriesSkipped ==
    ncalls > 0 =>
        /\ ret.raised # "ValueError"
        /\ Len(snapshots.val) = Cardinality(GoodEntries)
        /\ \A p \in GoodEntries :
              \E i \in 1..Len(snapshots.val) :
                  snapshots.val[i] =
                      load_manifest_file(store[get_path(p \o <<"manifest.json">>)],
                                         s3_bucket).val

\* C10: once a registry has been populated, its list is in strictly
\* descending order of parsed name timestamp: every element's name parses
\* and its timestamp is greater than its successor's.
C10_StrictlyDescending ==
    populated # "no" =>
        \A i \in 1..(Len(snapshots.val) - 1) :
            /\ cmp(snapshots.val[i], snapshots.val[i + 1]).ok
            /\ cmp(snapshots.val[i], snapshots.val[i + 1]).val > 0

\* where the sort returned, no element's timestamp is less than its
\* successor's
DescendingWhenSorted ==
    populated = "yes" =>
        \A i \in 1..(Len(snapshots.val) - 1) :
            /\ cmp(snapshots.val[i], snapshots.val[i + 1]).ok
            /\ cmp(snapshots.val[i], snapshots.val[i + 1]).val >= 0

----------------------------------------------------------------------------
(* Properties of a backup run, under Spec *)

IsStep(e, task) == e.ev = "step" /\ e.task = task

\* a completed clear-snapshot step for the snapshot of that name
IsClearOf(e, name) ==
    /\ IsStep(e, "clear_node_snapshot")
    /\ e.name = name
    /\ e.hosts = Range(args.hosts)

IsSnapshotStep(e) == IsStep(e, "node_start_backup") /\ e.cmd = "snapshot"

IsPutOf(e, file) == e.ev = "put" /\ Last(e.key) = file

\* key k is below the directory dir
Under(k, dir) == Len(k) > Len(dir) /\ SubSeq(k, 1, Len(dir)) = dir

\* C1: in a full run with keep_new_snapshot false, the step that follows
\* the upload step is clear-snapshot for the new snapshot's name, on every
\* host, whether the upload succeeded or failed; a failed upload is never
\* followed by a forward step, the run ends in failure, and once the
\* cleanup has returned the failure the caller gets is the upload's.
C1_ClearAfterUpload ==
    (called = "snapshot" /\ ~opts.keep_new_snapshot) =>
        \A i \in DOMAIN trace :
            IsStep(trace[i], "upload_node_backups") =>
                /\ IF i = Len(trace) THEN pc = "clear_new"
                   ELSE IsClearOf(trace[i + 1], snapshot.val.name)
                /\ trace[i].failed # {} =>
                      /\ pc \in {"clear_new", "failed"}
                      /\ Len(trace) <= i + 1
                      /\ pc = "failed" =>
                            /\ Len(trace) = i + 1
                            /\ raised = IF trace[i + 1].failed = {}
                                        THEN "upload_node_backups"
                                        ELSE "clear_node_snapshot"

\* upload failed on a host, the snapshot was cleared on every host, and the
\* caller got the upload failure
C1_Witness ==
    /\ called = "snapshot"
    /\ ~opts.keep_new_snapshot
    /\ pc = "failed"
    /\ raised = "upload_node_backups"
    /\ Len(trace) >= 2
    /\ IsStep(trace[Len(trace) - 1], "upload_node_backups")
    /\ trace[Len(trace) - 1].failed # {}
    /\ IsClearOf(trace[Len(trace)], snapshot.val.name)
    /\ trace[Len(trace)].failed = {}

\* C2: in a full run, a snapshot step that failed on any host is followed
\* by clear-snapshot for that snapshot's name and by nothing else: the run
\* ends in failure (the snapshot failure, once the cleanup has returned),
\* no upload step is started and no ring description, manifest or schema
\* is written.
C2_SnapshotFailureCleansUp ==
    \A i \in DOMAIN trace :
        (IsSnapshotStep(trace[i]) /\ trace[i].failed # {}) =>
            /\ IF i = Len(trace) THEN pc = "clear_failed"
               ELSE IsClearOf(trace[i + 1], snapshot.val.name)
            /\ Len(trace) <= i + 1
            /\ pc \in {"clear_failed", "failed"}
            /\ \A j \in running : j.call.task = "clear_node_snapshot"
            /\ \A k \in DOMAIN store : ~Under(k, SnapshotBasePath(snapshot.val))
            /\ pc = "failed" =>
                  /\ Len(trace) = i + 1
                  /\ raised = IF trace[i + 1].failed = {}
                              THEN "node_start_backup"
                              ELSE "clear_node_snapshot"

\* the snapshot step failed on a host, the snapshot was cleared by name and
\* the caller got the snapshot failure
C2_Witness ==
    /\ pc = "failed"
    /\ raised = "node_start_backup"
    /\ Len(trace) >= 2
    /\ IsSnapshotStep(trace[Len(trace) - 1])
    /\ trace[Len(trace) - 1].failed # {}
    /\ trace[Len(trace) - 1].failed # Range(args.hosts)
    /\ IsClearOf(trace[Len(trace)], snapshot.val.name)

\* C3: whenever the manifest of the snapshot of a full run is in the
\* object store, the snapshot step and then the upload step of that run
\* have completed on every host without a failure.
C3_ManifestAfterUpload ==
    (/\ called = "snapshot"
     /\ get_path(SnapshotBasePath(snapshot.val) \o <<"manifest.json">>) \in DOMAIN store) =>
        \E i, j \in DOMAIN trace :
            /\ i < j
            /\ IsSnapshotStep(trace[i])
            /\ trace[i].hosts = Range(args.hosts)
            /\ trace[i].failed = {}
            /\ IsStep(trace[j], "upload_node_backups")
            /\ trace[j].hosts = Range(args.hosts)
            /\ trace[j].failed = {}

\* a full run has written its manifest
C3_Witness ==
    /\ called = "snapshot"
    /\ get_path(SnapshotBasePath(snapshot.val) \o <<"manifest.json">>) \in DOMAIN store
    /\ store[get_path(SnapshotBasePath(snapshot.val) \o <<"manifest.json">>)]
          = dump_manifest_file(snapshot.val)

Compatible(s, a) ==
    s.hosts = a.hosts /\ s.keyspaces = a.keyspaces /\ s.table = a.table

\* the decision of run_backup where the registry was not read, or its
\* population returned
DecisionWhenPopulated ==
    pc # "start" =>
        LET new == Snapshot(s3_base_path, s3_bucket, args.hosts, args.keyspaces,
                            args.table, UtcNow)
        IN  /\ args.new_snapshot =>
                  /\ called = "snapshot"
                  /\ snapshot = Some(new)
                  /\ listings = 0
                  /\ snapshots = None
            /\ (/\ ~args.new_snapshot
                /\ populated = "yes"
                /\ \E i \in DOMAIN snapshots.val : Compatible(snapshots.val[i], args)) =>
                  /\ called = "update_snapshot"
                  /\ \E i \in DOMAIN snapshots.val : snapshot.val = snapshots.val[i]
                  /\ Compatible(snapshot.val, args)
                  /\ \A i \in DOMAIN trace : ~IsPutOf(trace[i], "manifest.json")
            /\ (/\ ~args.new_snapshot
                /\ populated = "yes"
                /\ \A i \in DOMAIN snapshots.val : ~Compatible(snapshots.val[i], args)) =>
                  /\ called = "snapshot"
                  /\ snapshot = Some(new)

\* the keys of the manifests the registry finds under the base path (the
\* entries of the listing whose manifest loads, stored under the key that
\* get_path gives) that are of the run's hosts, keyspaces and table
CompatibleManifests ==
    {k \in {get_path(p \o <<"manifest.json">>) : p \in GoodEntries} :
        Compatible(load_manifest_file(store[k], s3_bucket).val, args)}

\* C4: a run_backup without new_snapshot on a bucket that holds a snapshot
\* of the run's hosts, keyspaces and table performs update_snapshot on such
\* a snapshot and writes no manifest; on a bucket that holds none it
\* performs a full run on a new Snapshot; with new_snapshot it performs a
\* full run on a new Snapshot and the registry is never read.
C4_IncrementalIffCompatible ==
    pc # "start" =>
        LET new == Snapshot(s3_base_path, s3_bucket, args.hosts, args.keyspaces,
                            args.table, UtcNow)
            before == {k \in CompatibleManifests : k[Len(k) - 1] # UtcNow}
        IN  /\ args.new_snapshot =>
                  /\ called = "snapshot"
                  /\ snapshot = Some(new)
                  /\ listings = 0
            /\ (~args.new_snapshot /\ before # {}) =>
                  /\ called = "update_snapshot"
                  /\ Compatible(snapshot.val, args)
                  /\ snapshot.val.name # UtcNow
                  /\ \A i \in DOMAIN trace : ~IsPutOf(trace[i], "manifest.json")
            /\ (~args.new_snapshot /\ before = {}) =>
                  /\ called = "snapshot"
                  /\ snapshot = Some(new)

\* the same decision, by the manifests in the bucket, wherever the
\* population of the registry did not raise
IncrementalIffCompatibleWhenPopulated ==
    populated # "failed" => C4_IncrementalIffCompatible

\* an incremental run on a compatible manifest found under a base path
\* that ends with "/"
IncrementalUnderSlashPath ==
    /\ pc # "start"
    /\ Last(s3_base_path) = ""
    /\ CompatibleManifests # {}
    /\ called = "update_snapshot"

\* C5: an incremental run never writes a manifest and operates on the
\* registry's snapshot unchanged; a successful full run has written its
\* manifest exactly once; in both, the ring description is written only
\* after an upload step that succeeded on every host.
C5_ManifestOnlyInFullRun ==
    /\ called = "update_snapshot" =>
          /\ \A i \in DOMAIN trace : ~IsPutOf(trace[i], "manifest.json")
          /\ snapshot = ret.val
          /\ \E i \in DOMAIN snapshots.val : snapshot.val = snapshots.val[i]
    /\ (called = "snapshot" /\ pc = "done") =>
          Cardinality({i \in DOMAIN trace : IsPutOf(trace[i], "manifest.json")}) = 1
    /\ \A i \in DOMAIN trace :
          IsPutOf(trace[i], "ring") =>
              \E j \in 1..(i - 1) :
                  /\ IsStep(trace[j], "upload_node_backups")
                  /\ trace[j].failed = {}
                  /\ trace[j].incremental = (called = "update_snapshot")

\* an incremental run has completed and written the ring description
C5_Witness ==
    /\ called = "update_snapshot"
    /\ pc = "done"
    /\ \E i \in DOMAIN trace : IsPutOf(trace[i], "ring")
    /\ args.backup_schema

\* the place of an event in the order of BackupWorker.snapshot
Rank(e) ==
    IF e.ev = "step"
    THEN CASE e.task = "clear_node_backups"  -> 1
           [] e.task = "clear_node_snapshot" -> IF e.name = "" THEN 2 ELSE 5
           [] e.task = "node_start_backup"   -> 3
           [] e.task = "upload_node_backups" -> 4
    ELSE CASE Last(e.key) = "ring"          -> 6
           [] Last(e.key) = "manifest.json" -> 7
           [] OTHER                         -> 8

HasRank(n) == \E i \in DOMAIN trace : Rank(trace[i]) = n

\* C6: no host executes a command of a step other than the one the
\* orchestrator is at, and every step that has returned was executed on
\* every host; nothing is written to the bucket while a command runs; the
\* steps of a full run occur in the order clear-backups,
\* clear-old-snapshots, snapshot, upload, clear-new-snapshot, ring, manifest,
\* schema, and a full run that ends has gone through each step that its
\* flags ask for (clear-backups only with a data path and keyspaces).
C6_StepsSequential ==
    /\ \A j \in running :
          /\ j.at = pc
          /\ j.host \in DOMAIN jobs
          /\ jobs[j.host] = "running"
    /\ pc \notin SnapshotSteps \cup UpdateSteps => running = {} /\ DOMAIN jobs = {}
    /\ \A i \in DOMAIN trace :
          trace[i].ev = "step" => trace[i].hosts = Range(args.hosts)
    /\ called = "snapshot" =>
          /\ \A i, k \in DOMAIN trace :
                i < k => \/ Rank(trace[i]) < Rank(trace[k])
                         \/ Rank(trace[i]) = 8 /\ Rank(trace[k]) = 8
          /\ pc = "done" =>
                /\ HasRank(1) <=> /\ opts.delete_backups
                                  /\ args.cassandra_data_path # ""
                                  /\ Len(args.keyspaces) > 0
                /\ HasRank(2) <=> opts.delete_old_snapshots
                /\ HasRank(3) /\ HasRank(4) /\ HasRank(6) /\ HasRank(7)
                /\ HasRank(5) <=> ~opts.keep_new_snapshot
                /\ HasRank(8) <=> args.backup_schema
    /\ called = "update_snapshot" =>
          \A i, k \in DOMAIN trace :
              i < k => \/ Rank(trace[i]) < Rank(trace[k])
                       \/ Rank(trace[i]) = 8 /\ Rank(trace[k]) = 8

\* two hosts execute the upload of a full run at the same time, after the
\* three steps before it have returned
C6_Witness ==
    /\ called = "snapshot"
    /\ pc = "upload"
    /\ Cardinality(running) = 2
    /\ Len(trace) = 3
    /\ Rank(trace[1]) = 1 /\ Rank(trace[2]) = 2 /\ Rank(trace[3]) = 3

CleanupPcs == {"clear_failed", "clear_new", "failed"}

\* C7: once a step has failed on any host, the run is in its cleanup or has
\* failed: the only step that follows is the clear-snapshot by name of a
\* full run, no command other than that runs on any host, and nothing is
\* written to the bucket; an incremental run fails at once, with the
\* failure of that step.
C7_OneHostFailsTheStep ==
    \A i \in DOMAIN trace :
        (trace[i].ev = "step" /\ trace[i].failed # {}) =>
            /\ pc \in CleanupPcs
            /\ \A k \in DOMAIN trace : trace[k].ev = "step"
            /\ \A k \in (i + 1)..Len(trace) : IsClearOf(trace[k], snapshot.val.name)
            /\ \A j \in running : j.call = clear_node_snapshot(snapshot.val.name)
            /\ \A k \in DOMAIN store : ~Under(k, s3_base_path \o <<UtcNow>>)
            /\ trace[i].at \notin {"snapshot", "upload"} =>
                  /\ i = Len(trace)
                  /\ pc = "failed"
                  /\ raised = trace[i].task
            /\ called = "update_snapshot" => running = {}

\* the flush of an incremental run failed on one host of two, and the run
\* failed without an upload
C7_Witness ==
    /\ called = "update_snapshot"
    /\ pc = "failed"
    /\ raised = "node_start_backup"
    /\ Len(trace) = 1
    /\ trace[1].cmd = "flush"
    /\ Cardinality(trace[1].failed) = 1
    /\ Cardinality(trace[1].hosts) = 2

----------------------------------------------------------------------------
(* Properties of get_snapshot_for, under SpecRegistry *)

\* the snapshots of list l with these hosts (in order), keyspaces and table
Matching(l, q) ==
    {i \in DOMAIN l : l[i].hosts = q[1] /\ l[i].keyspaces = q[2] /\ l[i].table = q[3]}

\* snapshot x is a most recent one among the snapshots at indices I of l
MostRecentOf(x, l, I) ==
    /\ \E i \in I : l[i] = x
    /\ \A i \in I : l[i] = x \/ (cmp(x, l[i]).ok /\ cmp(x, l[i]).val >= 0)

\* C11: a call of get_snapshot_for returns; it returns absent when no
\* snapshot of the registry has the hosts, keyspaces and table asked for,
\* and otherwise a snapshot that has them and whose timestamp no other
\* such snapshot exceeds.
C11_MostRecentCompatible ==
    ret.op = "get_snapshot_for" =>
        /\ ret.raised = ""
        /\ LET I == Matching(snapshots.val, ret.arg)
           IN  IF I = {} THEN ret.val = None
               ELSE /\ ~ret.val.none
                    /\ MostRecentOf(ret.val.val, snapshots.val, I)

\* the same, for the calls that returned
MostRecentWhenReturned ==
    (ret.op = "get_snapshot_for" /\ ret.raised = "") =>
        LET I == Matching(snapshots.val, ret.arg)
        IN  IF I = {} THEN ret.val = None
            ELSE /\ ~ret.val.none
                 /\ (populated = "yes" =>
                        MostRecentOf(ret.val.val, snapshots.val, I))
                 /\ ret.val.val = snapshots.val[CHOOSE i \in I : \A k \in I : i <= k]

\* get_snapshot_for returned the newer of two matching snapshots, and
\* absent for a table no snapshot has
MostRecentReturned ==
    /\ ret.op = "get_snapshot_for"
    /\ ret.raised = ""
    /\ ~ret.val.none
    /\ ret.val.val.name = "20230601120000"
    /\ Cardinality(Matching(snapshots.val, ret.arg)) = 2

----------------------------------------------------------------------------
(* Properties of get_latest, under SpecRegistry *)

\* C24: a call of get_latest on a registry that holds snapshots returns the
\* first element of the list, which is a most recent one; on a registry
\* that holds none it raises instead of returning a value.
C24_LatestOrError ==
    ret.op = "get_latest" =>
        IF Len(snapshots.val) = 0
        THEN ret.raised # "" /\ ret.val = None
        ELSE /\ ret.raised = ""
             /\ ret.val = Some(snapshots.val[1])
             /\ MostRecentOf(snapshots.val[1], snapshots.val, DOMAIN snapshots.val)

\* the same, for the calls on a list that the sort did not raise on or
\* that find the list already there
LatestWhenReturned ==
    ret.op = "get_latest" =>
        /\ Len(snapshots.val) = 0 => (ret.raised = "IndexError" /\ ret.val = None)
        /\ ret.raised = "" =>
              /\ Len(snapshots.val) > 0
              /\ ret.val = Some(snapshots.val[1])
              /\ populated = "yes" =>
                    MostRecentOf(snapshots.val[1], snapshots.val, DOMAIN snapshots.val)

\* get_latest returned the newer of two snapshots
LatestReturned ==
    /\ ret.op = "get_latest"
    /\ ret.raised = ""
    /\ Len(snapshots.val) = 2
    /\ ret.val.val.name = "20230601120000"

\* get_latest raised on an empty registry
LatestOfNone ==
    /\ ret.op = "get_latest"
    /\ ret.raised = "IndexError"
    /\ snapshots.val = <<>>

----------------------------------------------------------------------------
(* A manifest written and read back *)

\* the snapshots written: of either base path, one or two hosts in either
\* order, no, one or two keyspaces, with or without a table, named by a
\* time before the time of reading, by that time, or by no timestamp
ManifestSnapshots ==
    {Snapshot(b, s3_bucket, h, k, t, n) :
        b \in {<<"backups">>, <<"backups", "">>},
        h \in {<<"h1">>, HostsA, HostsB},
        k \in {<<>>, <<"ks1">>, <<"ks1", "ks2">>},
        t \in {"", "cf1"},
        n \in {DirNames[1], DirNames[2], UtcNow, "20231301000000"}}

ManifestInit ==
    /\ snapshot \in {Some(x) : x \in ManifestSnapshots}
    /\ s3_base_path = snapshot.val.base_path
    /\ store = MkStore({})
    /\ pc = "dump"
    /\ snapshots = None
    /\ listings = 0
    /\ populated = "no"
    /\ ret = NoRet
    /\ ncalls = 0
    /\ args = None
    /\ opts = None
    /\ called = ""
    /\ pending = ""
    /\ raised = ""
    /\ jobs = <<>>
    /\ running = {}
    /\ trace = <<>>
    /\ OtherIdle

\* content = snapshot.dump_manifest_file(), stored as the manifest
DumpManifest ==
    /\ pc = "dump"
    /\ store' = Put(store, SnapshotBasePath(snapshot.val) \o <<"manifest.json">>,
                    dump_manifest_file(snapshot.val))
    /\ pc' = "load"
    /\ UNCHANGED <<othervars, s3_base_path, snapshots, listings, populated, ret, ncalls,
                   args, opts, called, snapshot, pending, raised, jobs, running,
                   trace>>

\* Snapshot.load_manifest_file(manifest_data, s3_bucket) on what was stored
LoadManifest ==
    /\ pc = "load"
    /\ LET data == store[get_path(SnapshotBasePath(snapshot.val) \o <<"manifest.json">>)]
           r == load_manifest_file(data, snapshot.val.s3_bucket)
       IN  ret' = IF r.ok
                  THEN [op |-> "load_manifest_file", raised |-> "", val |-> Some(r.val)]
                  ELSE [op |-> "load_manifest_file", raised |-> "Exception", val |-> None]
    /\ pc' = "loaded"
    /\ UNCHANGED <<othervars, store, s3_base_path, snapshots, listings, populated, ncalls,
                   args, opts, called, snapshot, pending, raised, jobs, running,
                   trace>>

ManifestNext == DumpManifest \/ LoadManifest

SpecManifest == ManifestInit /\ [][ManifestNext]_vars

\* C12: the snapshot loaded from the manifest dumped for snapshot s, with
\* s's bucket, has the name, base path, hosts (in order), keyspaces and
\* table of s, whatever the name of s is.
C12_ManifestRoundTrip ==
    pc = "loaded" =>
        /\ ret.raised = ""
        /\ ret.val.val.name = snapshot.val.name
        /\ ret.val.val.base_path = snapshot.val.base_path
        /\ ret.val.val.hosts = snapshot.val.hosts
        /\ ret.val.val.keyspaces = snapshot.val.keyspaces
        /\ ret.val.val.table = snapshot.val.table
        /\ ret.val.val.s3_bucket = snapshot.val.s3_bucket

\* a snapshot of two hosts given as h2, h1, with keyspaces and a table and
\* a name before the time of reading, was read back
C12_Witness ==
    /\ pc = "loaded"
    /\ ret.op = "load_manifest_file"
    /\ ret.val = snapshot
    /\ snapshot.val.hosts = HostsB
    /\ snapshot.val.name = DirNames[1]
    /\ snapshot.val.table = "cf1"

----------------------------------------------------------------------------
(* Properties of a list command that follows a backup run, under Spec *)

\* the key write_snapshot_manifest gives to write_on_s3
WrittenManifestKey(snap) == SnapshotBasePath(snap) \o <<"manifest.json">>

\* C13: a list command that follows a full run that ended well returns the
\* snapshot of that run, and the key it asked the bucket for is the key
\* the run wrote the manifest to.
C13_PublishedSnapshotListed ==
    (relisted # None /\ called = "snapshot") =>
        /\ ~relisted.val.raised
        /\ \E i \in DOMAIN relisted.val.snapshots :
              relisted.val.snapshots[i] = snapshot.val
        /\ WrittenManifestKey(snapshot.val) \in relisted.val.requested

\* the keys differ by empty segments only, and the snapshot is returned
\* unless the population raised
ListedUpToEmptySegments ==
    (relisted # None /\ called = "snapshot") =>
        /\ get_path(WrittenManifestKey(snapshot.val))
              \in {get_path(k) : k \in relisted.val.requested}
        /\ ~relisted.val.raised =>
              \E i \in DOMAIN relisted.val.snapshots :
                  relisted.val.snapshots[i] = snapshot.val

\* a list command has read the manifest of the full run before it
PublishedAndListed ==
    /\ relisted # None
    /\ called = "snapshot"
    /\ ~relisted.val.raised
    /\ Len(relisted.val.snapshots) = 2
    /\ relisted.val.snapshots[1] = snapshot.val

----------------------------------------------------------------------------
(* RestoreWorker: the matcher of keyspace, table and host *)

MAX_RETRY_COUNT == 3

\* the pool_size default of RestoreWorker._download_keys
DownloadPoolSize == 5

\* the characters of the path segments that hold a host name; every other
\* segment of the model holds none and is one symbol
HostChars ==
    [x \in {"h1", "h10", "h2"} |->
        CASE x = "h1"  -> <<"h", "1">>
          [] x = "h10" -> <<"h", "1", "0">>
          [] x = "h2"  -> <<"h", "2">>]

Text(seg) == IF seg \in DOMAIN HostChars THEN HostChars[seg] ELSE <<seg>>

\* the places <<segment, offset>> of path where the text of host h begins
Occurrences(path, h) ==
    {io \in (1..Len(path)) \X (1..3) :
        /\ io[2] + Len(Text(h)) - 1 <= Len(Text(path[io[1]]))
        /\ SubSeq(Text(path[io[1]]), io[2], io[2] + Len(Text(h)) - 1) = Text(h)}

\* a matcher that has no table part
KeyspaceAtAnyTable(path, i, keyspace, table) ==
    {j \in (i + 1)..(Len(path) - 2) : path[j] = keyspace}

\* ".*/(keyspace)/(table)/" after a host that ends in segment i: the
\* segments j that hold the keyspace, are followed by the table (any
\* segment when the pattern is ".*?") and by one more "/"
KeyspaceAt(path, i, keyspace, table) ==
    {j \in (i + 1)..(Len(path) - 2) :
        /\ path[j] = keyspace
        /\ table = "" \/ path[j + 1] = table}

\* place a is tried before place b: an earlier start, or the same start
\* and an earlier alternative of "(h1|h2|...)"
TriedBefore(a, b) ==
    \/ a[1] < b[1]
    \/ a[1] = b[1] /\ a[2] < b[2]
    \/ a[1] = b[1] /\ a[2] = b[2] /\ a[3] < b[3]

\* keyspace_table_matcher.search(path) for the pattern
\* "(<hosts joined by |>).*/(<keyspace>)/(<table or .*?>)/": the groups of
\* the leftmost match, the greedy ".*" reaching the last keyspace segment
MatcherSearch(path, hosts, keyspace, table) ==
    LET places == {ion \in (1..Len(path)) \X (1..3) \X (1..Len(hosts)) :
                      /\ <<ion[1], ion[2]>> \in Occurrences(path, hosts[ion[3]])
                      /\ KeyspaceAt(path, ion[1], keyspace, table) # {}}
    IN  IF places = {} THEN None
        ELSE LET m == CHOOSE a \in places :
                          \A b \in places \ {a} : TriedBefore(a, b)
                 J == KeyspaceAt(path, m[1], keyspace, table)
                 j == CHOOSE x \in J : \A y \in J : y <= x
             IN  Some([group1 |-> hosts[m[3]], group2 |-> path[j],
                       group3 |-> path[j + 1]])

\* RestoreWorker.dst_from_key: the directory of the merged table and the
\* name '%s_%s' % (group 1, last segment of the path), as its symbols
dst_from_key(path, merge_dir, hosts, keyspace, table) ==
    LET r == MatcherSearch(path, hosts, keyspace, table).val
    IN  <<merge_dir, r.group2, r.group3,
          Text(r.group1) \o <<"_", Last(path)>>>>

----------------------------------------------------------------------------
(* RestoreWorker: what is restored from *)

\* the snapshot given to RestoreWorker
RestoreSnapshot ==
    Snapshot(<<"backups">>, s3_bucket, HostsA, <<"ks1">>, "", DirNames[1])

\* the directory the files are under: local_source, or the snapshot's
\* directory in the bucket
SourceRoot(local_source) ==
    IF local_source # "" THEN <<local_source>> ELSE SnapshotBasePath(RestoreSnapshot)

\* a file of a host's keyspace and table, with its size
SourceFile(root, h, ks, t, f, size) ==
    [path |-> root \o <<h, "data", ks, t, f>>, size |-> size]

\* what the nodes uploaded, in key order: the same file name from two
\* hosts; from two hosts of which one's name begins with the other's;
\* files of two tables and another keyspace; nothing; one empty file; two
\* files of one table with the same name, one in a subdirectory
SourceListings(root) ==
    {<<SourceFile(root, "h1", "ks1", "cf1", "data.db", 1),
       SourceFile(root, "h2", "ks1", "cf1", "data.db", 2)>>,
     <<SourceFile(root, "h1", "ks1", "cf1", "data.db", 1),
       SourceFile(root, "h10", "ks1", "cf1", "data.db", 2)>>,
     <<SourceFile(root, "h1", "ks1", "cf1", "data.db", 1),
       SourceFile(root, "h1", "ks1", "cf2", "index.db", 2),
       SourceFile(root, "h1", "ks2", "cf1", "data.db", 4)>>,
     <<>>,
     <<SourceFile(root, "h1", "ks1", "cf1", "data.db", 0)>>,
     <<SourceFile(root, "h1", "ks1", "cf1", "data.db", 1),
       [path |-> root \o <<"h1", "data", "ks1", "cf1", "snapshots", "data.db">>,
        size |-> 2]>>}

\* directories beside the snapshot's whose names begin with its name, and
\* the characters of the directory names (a digit as its value, "x" as
\* its code)
SiblingDirs == <<"202301010000001", "20230101000000x">>

DirChars ==
    [d \in DOMAIN NameDigits \cup {SiblingDirs[1], SiblingDirs[2]} |->
        IF d = SiblingDirs[1] THEN NameDigits[DirNames[1]] \o <<1>>
        ELSE IF d = SiblingDirs[2] THEN NameDigits[DirNames[1]] \o <<120>>
        ELSE NameDigits[d]]

\* a bucket, in key order, that holds one file of the snapshot, its
\* manifest and ring, files of the two directories beside it and of
\* another snapshot
SiblingListing ==
    <<[path |-> <<"backups", DirNames[1], "h1", "data", "ks1", "cf1", "data.db">>,
       size |-> 1],
      [path |-> <<"backups", DirNames[1], "manifest.json">>, size |-> 1],
      [path |-> <<"backups", DirNames[1], "ring">>, size |-> 1],
      [path |-> <<"backups", SiblingDirs[1], "h1", "data", "ks1", "cf1", "data.db">>,
       size |-> 2],
      [path |-> <<"backups", SiblingDirs[2], "h1", "data", "ks1", "cf2", "index.db">>,
       size |-> 2],
      [path |-> <<"backups", DirNames[2], "h1", "data", "ks1", "cf1", "data.db">>,
       size |-> 8]>>

\* the bucket also holds the snapshot's manifest and ring, and the files of
\* another snapshot
OtherKeys ==
    <<[path |-> SnapshotBasePath(RestoreSnapshot) \o <<"manifest.json">>, size |-> 1],
      [path |-> SnapshotBasePath(RestoreSnapshot) \o <<"ring">>, size |-> 1],
      [path |-> <<"backups", DirNames[2], "h1", "data", "ks1", "cf1", "data.db">>,
       size |-> 8]>>

\* the arguments of a RestoreWorker that is constructed and run directly:
\* hosts are those given to restore()
WorkerArgs ==
    {[keyspace |-> "ks1", table |-> t, hosts |-> h, args_hosts |-> h,
      target_hosts |-> th, local_source |-> ls, merge_dir |-> "merge",
      snapshot_name |-> "LATEST", command |-> FALSE] :
        t \in {"", "cf1"},
        h \in {<<"h1">>, <<"h1", "h2">>, <<"h1", "h10">>, <<"h10", "h1">>},
        th \in {<<"t1">>, <<"t1", "t2">>},
        ls \in {"", "restore"}}

\* the arguments of the restore command: --hosts given or not,
\* --snapshot-name left at LATEST or naming a snapshot
CommandArgs ==
    {[keyspace |-> "ks1", table |-> "", hosts |-> <<>>, args_hosts |-> h,
      target_hosts |-> <<"t1">>, local_source |-> ls, merge_dir |-> "merge",
      snapshot_name |-> n, command |-> TRUE] :
        h \in {<<>>, <<"h1">>},
        ls \in {"", "restore"},
        n \in {"LATEST", DirNames[1]}}

RestoreArgs == WorkerArgs \cup CommandArgs

\* the manifests in the bucket when the restore command runs: none, that
\* of the snapshot, that and a later one of other hosts, that and one
\* whose name is no timestamp
CommandStores ==
    LET at(d, snap) == <<get_path(<<"backups", d, "manifest.json">>),
                         dump_manifest_file(snap)>>
        first == at(DirNames[1], RestoreSnapshot)
    IN  {MkStore({}),
         MkStore({first}),
         MkStore({first, at(DirNames[2], Snapshot(<<"backups">>, s3_bucket, HostsB,
                                                  <<"ks1">>, "", DirNames[2]))}),
         MkStore({first, at(DirNames[2], Snapshot(<<"backups">>, s3_bucket, HostsA,
                                                  <<"ks1">>, "", "20231301000000"))})}

(* RestoreWorker: finding the keys *)

\* str.startswith between two path segments, by their characters
SegStartsWith(seg, pre) ==
    \/ seg = pre
    \/ /\ seg \in DOMAIN DirChars
       /\ pre \in DOMAIN DirChars
       /\ Len(DirChars[pre]) <= Len(DirChars[seg])
       /\ SubSeq(DirChars[seg], 1, Len(DirChars[pre])) = DirChars[pre]

\* bucket.list(prefix): the keys whose name starts with the prefix, in key
\* order; the prefix does not end with "/", so the keys of a directory
\* whose name begins with the snapshot's name are among them
UnderPrefix(l, prefix) ==
    SelectSeq(l, LAMBDA k :
        /\ Len(k.path) >= Len(prefix)
        /\ SubSeq(k.path, 1, Len(prefix) - 1) = SubSeq(prefix, 1, Len(prefix) - 1)
        /\ SegStartsWith(k.path[Len(prefix)], prefix[Len(prefix)]))

RECURSIVE SumSizes(_)
SumSizes(l) == IF Len(l) = 0 THEN 0 ELSE l[1].size + SumSizes(Tail(l))

\* the loop of _find_s3_keys and _find_local_keys over the listed names
FindKeys(l, hosts, keyspace, table) ==
    LET keys == SelectSeq(l, LAMBDA k :
                    ~MatcherSearch(k.path, hosts, keyspace, table).none)
    IN  [keys |-> keys,
         tables |-> {MatcherSearch(keys[i].path, hosts, keyspace, table).val.group3 :
                        i \in DOMAIN keys},
         total_size |-> SumSizes(keys)]

\* RestoreWorker._find_s3_keys
find_s3_keys(l, snap, hosts, keyspace, table) ==
    FindKeys(UnderPrefix(l, SnapshotBasePath(snap)), hosts, keyspace, table)

\* the directory of a file, and whether directory d is p or above p
DirOf(path) == SubSeq(path, 1, Len(path) - 1)

Within(d, p) == Len(d) <= Len(p) /\ SubSeq(p, 1, Len(d)) = d

\* list_files of _find_local_keys: the orders in which os.walk can yield
\* the files fs. The entries of a directory come in the order of the
\* file system, which is any order; a directory's own files are yielded
\* before those of its subdirectories, and the files under one directory
\* are yielded together.
list_files(fs) ==
    LET n == Len(fs)
        orders == {p \in [1..n -> 1..n] : \A a, b \in 1..n : a # b => p[a] # p[b]}
        at(p, a) == fs[p[a]].path
    IN  {[a \in 1..n |-> fs[p[a]]] : p \in
            {p \in orders :
                /\ \A a, b \in 1..n :
                      (a < b /\ DirOf(at(p, b)) # DirOf(at(p, a)))
                          => ~Within(DirOf(at(p, b)), DirOf(at(p, a)))
                /\ \A a, b, c \in 1..n :
                      (a < b /\ b < c) =>
                          \A d \in 1..Len(DirOf(at(p, a))) :
                              Within(SubSeq(at(p, a), 1, d), DirOf(at(p, c)))
                                  => Within(SubSeq(at(p, a), 1, d), DirOf(at(p, b)))}}

\* RestoreWorker._find_local_keys, on the files as list_files gave them
find_local_keys(l, hosts, keyspace, table) == FindKeys(l, hosts, keyspace, table)

(* RestoreWorker: the transfers *)

\* a download_snappy_key that gives up one failure later
AfterAttemptOneMore(retry_count, ok) ==
    IF ok THEN [st |-> "done", retry_count |-> retry_count]
    ELSE IF retry_count + 1 >= MAX_RETRY_COUNT + 1
    THEN [st |-> "failed", retry_count |-> retry_count + 1]
    ELSE [st |-> "running", retry_count |-> retry_count + 1]

\* download_snappy_key after one pass of its while loop, entered with
\* retry_count: the pass returned key.size, or raised and is repeated, or
\* raised for the last time
AfterAttempt(retry_count, ok) ==
    IF ok THEN [st |-> "done", retry_count |-> retry_count]
    ELSE IF retry_count + 1 >= MAX_RETRY_COUNT
    THEN [st |-> "failed", retry_count |-> retry_count + 1]
    ELSE [st |-> "running", retry_count |-> retry_count + 1]

\* what RestoreWorker._download_key returns: it has no return statement
download_key_result(key) == None

\* what RestoreWorker._copy_key returns: os.path.getsize(key)
copy_key_result(key) == Some(key.size)

\* a loop of _download_keys that goes on after a transfer that raised
AfterResultIgnoringFailure(w, bytes, total_size) ==
    IF w.st = "failed" \/ w.result.none
    THEN [rpc |-> "download", rraised |-> "", read_bytes |-> bytes]
    ELSE IF total_size = 0
    THEN [rpc |-> "failed", rraised |-> "ZeroDivisionError",
          read_bytes |-> bytes + w.result.val]
    ELSE [rpc |-> "download", rraised |-> "", read_bytes |-> bytes + w.result.val]

\* one pass of "for size in thread_pool.imap(meth, keys)": the next result
\* is the transfer's exception, or is added to read_bytes (an addition that
\* raises TypeError for None) and divided by total_size
AfterResult(w, bytes, total_size) ==
    IF w.st = "failed"
    THEN [rpc |-> "failed", rraised |-> "transfer", read_bytes |-> bytes]
    ELSE IF w.result.none
    THEN [rpc |-> "failed", rraised |-> "TypeError", read_bytes |-> bytes]
    ELSE IF total_size = 0
    THEN [rpc |-> "failed", rraised |-> "ZeroDivisionError",
          read_bytes |-> bytes + w.result.val]
    ELSE [rpc |-> "download", rraised |-> "", read_bytes |-> bytes + w.result.val]

\* A file of the merge directory is [dst, content]. The content is written
\* in chunks of one size: content[j] = i says that the j-th chunk of the
\* file is the j-th chunk of the i-th matched key, Hole that it is the
\* zeros below a chunk that was written past the end of the file, and
\* Old that a previous run wrote it.
Hole == 0

Old == 0 - 1

\* the number of chunks of a key, and the content of the i-th of keys
NChunks(key) == key.size

KeyContent(keys, i) == [j \in 1..NChunks(keys[i]) |-> i]

FileAt(m, dst) == CHOOSE x \in m : x.dst = dst

\* open(dst, 'wb'): the file is made, or truncated
OpenFile(m, dst) ==
    {x \in m : x.dst # dst} \cup {[dst |-> dst, content |-> <<>>]}

\* file_object.write(buf) of the chunk at pos of key i, through a handle
\* that has written pos - 1 chunks: transfers of two keys with the same
\* destination write through two handles, each from the start of the
\* file, in threads that run between one another's chunks
WriteFile(m, dst, i, pos) ==
    LET old == FileAt(m, dst).content
        new == IF pos <= Len(old) THEN [old EXCEPT ![pos] = i]
               ELSE old \o [j \in 1..(pos - 1 - Len(old)) |-> Hole] \o <<i>>
    IN  {x \in m : x.dst # dst} \cup {[dst |-> dst, content |-> new]}

\* os.path.join(self.merge_dir, keyspace, table)
TableDir(merge_dir, keyspace, table) == <<merge_dir, keyspace, table>>

\* a directory of the merge directory, and a stale file in it
MergeDir(merge_dir, keyspace, table) ==
    [dst |-> TableDir(merge_dir, keyspace, table), content |-> <<>>]

StaleFile(merge_dir, keyspace, table) ==
    [dst |-> TableDir(merge_dir, keyspace, table) \o <<<<"old.db">>>>,
     content |-> <<Old>>]

\* what a previous restore left: tables cf1 and cf9 of ks1, and ks2
LeftOver ==
    {MergeDir("merge", "ks1", "cf1"), StaleFile("merge", "ks1", "cf1"),
     MergeDir("merge", "ks1", "cf9"), StaleFile("merge", "ks1", "cf9"),
     MergeDir("merge", "ks2", "cf1"), StaleFile("merge", "ks2", "cf1")}

\* a _delete_old_dir_and_create_new that removes nothing
create_new_dirs_only(m, merge_dir, keyspace, tables) ==
    m \cup {MergeDir(merge_dir, keyspace, t) : t \in tables}

\* RestoreWorker._delete_old_dir_and_create_new: rmtree of
\* <merge_dir>/<keyspace>, then makedirs of each table's directory
delete_old_dir_and_create_new(m, merge_dir, keyspace, tables) ==
    {x \in m : x.dst[1] # merge_dir \/ x.dst[2] # keyspace}
        \cup {MergeDir(merge_dir, keyspace, t) : t \in tables}

(* The restore command *)

RestoreInit ==
    /\ rargs \in {Some(a) : a \in RestoreArgs}
    /\ files \in {l \o (IF rargs.val.local_source # "" THEN <<>> ELSE OtherKeys) :
                     l \in SourceListings(SourceRoot(rargs.val.local_source))}
                 \cup (IF rargs.val.local_source # "" THEN {} ELSE {SiblingListing})
    /\ matched = None
    /\ rpc = IF rargs.val.command THEN "command" ELSE "start"
    /\ work = <<>>
    /\ consumed = 0
    /\ read_bytes = 0
    /\ merge = LeftOver
    /\ loads = <<>>
    /\ rraised = ""
    /\ relisted = None
    /\ s3_base_path = <<"backups">>
    /\ store \in IF rargs.val.command THEN CommandStores ELSE {MkStore({})}
    /\ snapshot \in IF rargs.val.command THEN {None}
                    ELSE {None, Some(RestoreSnapshot)}
    /\ snapshots = None
    /\ listings = 0
    /\ populated = "no"
    /\ ret = NoRet
    /\ ncalls = 0
    /\ args = None
    /\ opts = None
    /\ called = ""
    /\ pc = "restore"
    /\ pending = ""
    /\ raised = ""
    /\ jobs = <<>>
    /\ running = {}
    /\ trace = <<>>

backupvars == <<store, s3_base_path, snapshots, listings, populated, ret, ncalls,
                args, opts, called, snapshot, pc, pending, raised, jobs, running,
                trace, relisted>>

\* main.py, restore_backup, up to worker.restore(...): the snapshot is
\* looked up unless a local source and hosts are both given, by get_latest
\* for 'LATEST' and else by the attribute args.backup_name, which the
\* parser does not define; the hosts are those given or the snapshot's
restore_backup(a, st, base_path) ==
    LET r == ReadS3(None, st, base_path)
    IN  IF a.local_source # "" /\ a.args_hosts # <<>>
        THEN [raised |-> "", read |-> FALSE, snapshot |-> None, hosts |-> a.args_hosts]
        ELSE IF a.snapshot_name # "LATEST"
        THEN [raised |-> "AttributeError", read |-> FALSE, snapshot |-> None,
              hosts |-> <<>>]
        ELSE IF r.raised
        THEN [raised |-> "ValueError", read |-> TRUE, snapshot |-> None, hosts |-> <<>>]
        ELSE IF Len(r.snapshots.val) = 0
        THEN [raised |-> "IndexError", read |-> TRUE, snapshot |-> None, hosts |-> <<>>]
        ELSE [raised |-> "", read |-> TRUE, snapshot |-> Some(r.snapshots.val[1]),
              hosts |-> IF a.args_hosts # <<>> THEN a.args_hosts
                        ELSE r.snapshots.val[1].hosts]

\* the restore command, up to the call of RestoreWorker.restore
RestoreBackup ==
    /\ rpc = "command"
    /\ \E c \in {restore_backup(rargs.val, store, s3_base_path)},
          r \in {ReadS3(None, store, s3_base_path)} :
           /\ snapshot' = c.snapshot
           /\ rargs' = Some([rargs.val EXCEPT !.hosts = c.hosts])
           /\ rpc' = IF c.raised # "" THEN "failed" ELSE "start"
           /\ rraised' = c.raised
           /\ IF c.read
              THEN /\ snapshots' = r.snapshots
                   /\ listings' = listings + 1
                   /\ populated' = IF r.raised THEN "failed" ELSE "yes"
                   /\ ncalls' = ncalls + 1
                   /\ ret' = [op |-> "get_latest", raised |-> c.raised,
                              val |-> c.snapshot]
              ELSE UNCHANGED <<snapshots, listings, populated, ncalls, ret>>
    /\ UNCHANGED <<files, matched, work, consumed, read_bytes, merge, loads>>
    /\ UNCHANGED <<store, s3_base_path, args, opts, called, pc, pending,
                   raised, jobs, running, trace, relisted>>

\* a _restore that clears the merge directory before it looks for the keys
merge_cleared_before_find_keys(found, m, merge_dir, keyspace) ==
    delete_old_dir_and_create_new(m, merge_dir, keyspace,
                                  IF found.none THEN {} ELSE found.val.tables)

\* the merge directory after the keys were looked for: only when they were
\* found does _restore reach _delete_old_dir_and_create_new
merge_after_find_keys(found, m, merge_dir, keyspace) ==
    IF found.none THEN m
    ELSE delete_old_dir_and_create_new(m, merge_dir, keyspace, found.val.tables)

\* RestoreWorker._restore up to the loop of _download_keys: the keys are
\* found (the listing of the bucket may raise, and does without a
\* snapshot), the keyspace's merge directory is removed and the
\* directories of the tables are made, and the keys are given to the pool;
\* walk is the order in which os.walk yields the files of a local source
RestoreBegin(list_ok, walk) ==
    /\ rpc = "start"
    /\ rargs.val.local_source # "" => list_ok
    /\ LET a == rargs.val
           found == IF a.local_source # ""
                    THEN Some(find_local_keys(walk, a.hosts, a.keyspace, a.table))
                    ELSE IF snapshot = None \/ ~list_ok THEN None
                    ELSE Some(find_s3_keys(files, snapshot.val, a.hosts, a.keyspace,
                                           a.table))
       IN  /\ matched' = found
           /\ work' = IF found.none THEN <<>>
                      ELSE [i \in 1..Len(found.val.keys) |->
                               [st |-> "queued", retry_count |-> 0, attempts |-> <<>>,
                                result |-> None, dst |-> <<>>, written |-> 0]]
           /\ merge' = merge_after_find_keys(found, merge, a.merge_dir, a.keyspace)
           /\ rpc' = IF found.none THEN "failed" ELSE "download"
           /\ rraised' = IF ~found.none THEN ""
                         ELSE IF snapshot = None THEN "AttributeError"
                         ELSE "S3ResponseError"
    /\ UNCHANGED <<rargs, files, consumed, read_bytes, loads>>
    /\ UNCHANGED backupvars

\* the destination of the i-th key, which its transfer computed when it
\* began
DstOf(i) == work[i].dst

\* a thread of the pool takes the next key: _copy_key and _download_key
\* begin with dst_from_key
TransferStart(i) ==
    /\ rpc \in {"download", "failed"}
    /\ i \in DOMAIN work
    /\ work[i].st = "queued"
    /\ \A k \in 1..(i - 1) : work[k].st # "queued"
    /\ Cardinality({k \in DOMAIN work : work[k].st \in {"running", "writing"}})
          < DownloadPoolSize
    /\ work' = [work EXCEPT
                   ![i].st = "running",
                   ![i].dst = dst_from_key(matched.val.keys[i].path,
                                           rargs.val.merge_dir, rargs.val.hosts,
                                           rargs.val.keyspace, rargs.val.table)]
    /\ UNCHANGED <<rargs, files, matched, rpc, consumed, read_bytes, merge, loads,
                   rraised>>
    /\ UNCHANGED backupvars

\* a pass of the loop of download_snappy_key, up to open(dst, 'wb'): the
\* file is made or truncated, or the pass raises before it (the
\* decompressor or the open fails) and is counted
DownloadOpen(i, ok) ==
    /\ rpc \in {"download", "failed"}
    /\ rargs.val.local_source = ""
    /\ i \in DOMAIN work
    /\ work[i].st = "running"
    /\ LET next == AfterAttempt(work[i].retry_count, FALSE)
       IN  IF ok
           THEN /\ merge' = OpenFile(merge, DstOf(i))
                /\ work' = [work EXCEPT ![i].st = "writing", ![i].written = 0]
           ELSE /\ merge' = merge
                /\ work' = [work EXCEPT ![i] =
                               [st |-> next.st, retry_count |-> next.retry_count,
                                attempts |-> Append(@.attempts, FALSE),
                                result |-> download_key_result(matched.val.keys[i]),
                                dst |-> @.dst, written |-> 0]]
    /\ UNCHANGED <<rargs, files, matched, rpc, consumed, read_bytes, loads, rraised>>
    /\ UNCHANGED backupvars

\* one pass of the loop "for data in key" of download_snappy_key: the next
\* chunk is written to the open file
DownloadChunk(i) ==
    /\ rpc \in {"download", "failed"}
    /\ rargs.val.local_source = ""
    /\ i \in DOMAIN work
    /\ work[i].st = "writing"
    /\ work[i].written < NChunks(matched.val.keys[i])
    /\ merge' = WriteFile(merge, DstOf(i), i, work[i].written + 1)
    /\ work' = [work EXCEPT ![i].written = @ + 1]
    /\ UNCHANGED <<rargs, files, matched, rpc, consumed, read_bytes, loads, rraised>>
    /\ UNCHANGED backupvars

\* RestoreWorker._download_key: the end of a pass of the loop of
\* download_snappy_key. After the last chunk the file is closed and the
\* size returned; or the pass raises, after any number of chunks (and
\* after the last, in decompressor.flush()), the file is closed as it is
\* and the pass is counted
DownloadAttempt(i, ok) ==
    /\ rpc \in {"download", "failed"}
    /\ rargs.val.local_source = ""
    /\ i \in DOMAIN work
    /\ work[i].st = "writing"
    /\ ok => work[i].written = NChunks(matched.val.keys[i])
    /\ LET key == matched.val.keys[i]
           next == AfterAttempt(work[i].retry_count, ok)
       IN  work' = [work EXCEPT ![i] =
                       [st |-> next.st, retry_count |-> next.retry_count,
                        attempts |-> Append(@.attempts, ok),
                        result |-> download_key_result(key),
                        dst |-> @.dst, written |-> 0]]
    /\ UNCHANGED <<rargs, files, matched, rpc, consumed, read_bytes, merge, loads,
                   rraised>>
    /\ UNCHANGED backupvars

\* shutil.copy2 up to the opening of dst: the file is made or truncated,
\* or copy2 raises before it (the source cannot be opened) and leaves
\* the directory as it is
CopyOpen(i, ok) ==
    /\ rpc \in {"download", "failed"}
    /\ rargs.val.local_source # ""
    /\ i \in DOMAIN work
    /\ work[i].st = "running"
    /\ IF ok
       THEN /\ merge' = OpenFile(merge, DstOf(i))
            /\ work' = [work EXCEPT ![i].st = "writing", ![i].written = 0]
       ELSE /\ merge' = merge
            /\ work' = [work EXCEPT ![i] =
                           [st |-> "failed", retry_count |-> 0,
                            attempts |-> Append(@.attempts, FALSE),
                            result |-> None, dst |-> @.dst, written |-> 0]]
    /\ UNCHANGED <<rargs, files, matched, rpc, consumed, read_bytes, loads, rraised>>
    /\ UNCHANGED backupvars

\* one pass of the loop of shutil.copyfileobj: the next chunk is written
\* to the open file
CopyChunk(i) ==
    /\ rpc \in {"download", "failed"}
    /\ rargs.val.local_source # ""
    /\ i \in DOMAIN work
    /\ work[i].st = "writing"
    /\ work[i].written < NChunks(matched.val.keys[i])
    /\ merge' = WriteFile(merge, DstOf(i), i, work[i].written + 1)
    /\ work' = [work EXCEPT ![i].written = @ + 1]
    /\ UNCHANGED <<rargs, files, matched, rpc, consumed, read_bytes, loads, rraised>>
    /\ UNCHANGED backupvars

\* RestoreWorker._copy_key: the end of shutil.copy2 and the return. After
\* the last chunk the file is closed, copystat is done and the size of
\* the source is returned; or the copy raises, after any number of chunks
\* (and after the last, in copystat or os.path.getsize), and the file is
\* left as it is
CopyKey(i, ok) ==
    /\ rpc \in {"download", "failed"}
    /\ rargs.val.local_source # ""
    /\ i \in DOMAIN work
    /\ work[i].st = "writing"
    /\ ok => work[i].written = NChunks(matched.val.keys[i])
    /\ LET key == matched.val.keys[i]
       IN  work' = [work EXCEPT ![i] =
                       [st |-> IF ok THEN "done" ELSE "failed",
                        retry_count |-> 0,
                        attempts |-> Append(@.attempts, ok),
                        result |-> IF ok THEN copy_key_result(key) ELSE None,
                        dst |-> @.dst, written |-> 0]]
    /\ UNCHANGED <<rargs, files, matched, rpc, consumed, read_bytes, merge, loads,
                   rraised>>
    /\ UNCHANGED backupvars

\* the loop of _download_keys takes the next result, in the order of keys
TakeResult ==
    /\ rpc = "download"
    /\ consumed < Len(work)
    /\ work[consumed + 1].st \in {"done", "failed"}
    /\ LET next == AfterResult(work[consumed + 1], read_bytes, matched.val.total_size)
       IN  /\ rpc' = next.rpc
           /\ rraised' = next.rraised
           /\ read_bytes' = next.read_bytes
    /\ consumed' = consumed + 1
    /\ UNCHANGED <<rargs, files, matched, work, merge, loads>>
    /\ UNCHANGED backupvars

\* the loop of _download_keys ends and _run_sstableloader begins
DownloadsEnd ==
    /\ rpc = "download"
    /\ consumed = Len(work)
    /\ rpc' = IF matched.val.tables = {} THEN "done" ELSE "load"
    /\ UNCHANGED <<rargs, files, matched, work, consumed, read_bytes, merge, loads,
                   rraised>>
    /\ UNCHANGED backupvars

\* what os.system(command) does: it returns the exit status of the
\* command, zero or not, or it raises
LoaderOutcomes == {"zero", "nonzero", "raised"}

\* _run_sstableloader after os.system: an exception is logged and raised
\* again, a returned status is dropped and the loop goes on
AfterLoader(outcome, last) ==
    IF outcome = "raised" THEN [rpc |-> "failed", rraised |-> "loader"]
    ELSE IF last THEN [rpc |-> "done", rraised |-> ""]
    ELSE [rpc |-> "load", rraised |-> ""]

\* one pass of the loop of _run_sstableloader
RunSstableloader(t, outcome) ==
    /\ rpc = "load"
    /\ t \in matched.val.tables
    /\ \A i \in DOMAIN loads : loads[i].table # t
    /\ loads' = Append(loads,
                       [table |-> t,
                        path |-> TableDir(rargs.val.merge_dir, rargs.val.keyspace, t),
                        nodes |-> rargs.val.target_hosts,
                        outcome |-> outcome])
    /\ LET next == AfterLoader(outcome,
                               Len(loads) + 1 = Cardinality(matched.val.tables))
       IN  /\ rpc' = next.rpc
           /\ rraised' = next.rraised
    /\ UNCHANGED <<rargs, files, matched, work, consumed, read_bytes, merge>>
    /\ UNCHANGED backupvars

\* the listings the restore can get: those of os.walk for a local source,
\* the keys of the bucket in key order otherwise
Listed ==
    IF rpc = "start" /\ rargs.val.local_source # "" THEN list_files(files)
    ELSE {files}

RestoreNext ==
    \/ RestoreBackup
    \/ \E list_ok \in BOOLEAN, walk \in Listed : RestoreBegin(list_ok, walk)
    \/ \E i \in DOMAIN work : TransferStart(i)
    \/ \E i \in DOMAIN work, ok \in BOOLEAN : DownloadOpen(i, ok)
    \/ \E i \in DOMAIN work : DownloadChunk(i)
    \/ \E i \in DOMAIN work, ok \in BOOLEAN : DownloadAttempt(i, ok)
    \/ \E i \in DOMAIN work, ok \in BOOLEAN : CopyOpen(i, ok)
    \/ \E i \in DOMAIN work : CopyChunk(i)
    \/ \E i \in DOMAIN work, ok \in BOOLEAN : CopyKey(i, ok)
    \/ TakeResult
    \/ DownloadsEnd
    \/ \E t \in {"cf1", "cf2"}, outcome \in LoaderOutcomes : RunSstableloader(t, outcome)

SpecRestore == RestoreInit /\ [][RestoreNext]_vars

----------------------------------------------------------------------------
(* Properties of the restore command, under SpecRestore *)

\* the host directory, keyspace, table and base name of a stored file
\* <root>/<host>/data/<keyspace>/<table>/.../<file>
RootLen == Len(SourceRoot(rargs.val.local_source))
SourceHostOf(key) == key.path[RootLen + 1]
KeyspaceOf(key) == key.path[RootLen + 3]
TableOf(key) == key.path[RootLen + 4]
BaseNameOf(key) == key.path[Len(key.path)]

AllTransferred ==
    /\ matched # None
    /\ \A i \in DOMAIN work : work[i].st = "done"

\* the file the merge directory holds for the i-th matched key, of a
\* declared host: the whole of the key under the name <host>_<file>
MergedFileOf(i) ==
    LET key == matched.val.keys[i]
    IN  [dst |-> <<rargs.val.merge_dir, rargs.val.keyspace, TableOf(key),
                   Text(SourceHostOf(key)) \o <<"_", BaseNameOf(key)>>>>,
         content |-> KeyContent(matched.val.keys, i)]

DeclaredHostKeys ==
    {i \in DOMAIN matched.val.keys :
        \E h \in DOMAIN rargs.val.hosts :
            rargs.val.hosts[h] = SourceHostOf(matched.val.keys[i])}

\* C14: once every matched file is transferred, the merge directory holds,
\* for each matched file of a declared source host H with base name F, the
\* file <merge_dir>/<keyspace>/<table>/<H>_<F> with that file's content, so
\* files of the same name from different hosts are both there.
C14_MergedPerSourceHost ==
    AllTransferred =>
        \A i \in DeclaredHostKeys : MergedFileOf(i) \in merge

\* no declared host's name is tried before a declared name that contains it
LongerNamesFirst ==
    \A a, b \in DOMAIN rargs.val.hosts :
        (a < b /\ rargs.val.hosts[a] # rargs.val.hosts[b]) =>
            \A o \in 1..3 :
                <<1, o>> \notin Occurrences(<<rargs.val.hosts[b]>>, rargs.val.hosts[a])

\* no two matched files of one host and table have the same base name
NamesDifferInOneTable ==
    \A i, k \in DOMAIN matched.val.keys :
        (/\ i # k
         /\ SourceHostOf(matched.val.keys[i]) = SourceHostOf(matched.val.keys[k])
         /\ TableOf(matched.val.keys[i]) = TableOf(matched.val.keys[k])) =>
            BaseNameOf(matched.val.keys[i]) # BaseNameOf(matched.val.keys[k])

\* the naming holds when host names that contain another are given first,
\* no file of another host is matched and no host has two files of one
\* name in a table
MergedPerSourceHostWhenLongerFirst ==
    (/\ AllTransferred
     /\ LongerNamesFirst
     /\ DeclaredHostKeys = DOMAIN matched.val.keys
     /\ NamesDifferInOneTable) =>
        \A i \in DeclaredHostKeys : MergedFileOf(i) \in merge

\* two files of the same name from two declared hosts are both merged
BothHostsMerged ==
    /\ AllTransferred
    /\ \E i, k \in DeclaredHostKeys :
          /\ SourceHostOf(matched.val.keys[i]) # SourceHostOf(matched.val.keys[k])
          /\ BaseNameOf(matched.val.keys[i]) = BaseNameOf(matched.val.keys[k])
          /\ MergedFileOf(i) \in merge
          /\ MergedFileOf(k) \in merge

\* C15: a remote fetch of one item is attempted at most MAX_RETRY_COUNT = 3
\* times: no attempt follows one that succeeded, the fetch has succeeded
\* exactly when its last attempt did (the third after two failures
\* included), and it has failed exactly when three attempts all failed.
C15_AtMostThreeAttempts ==
    (matched # None /\ rargs.val.local_source = "") =>
        \A i \in DOMAIN work :
            LET tried == work[i].attempts
            IN  /\ Len(tried) <= 3
                /\ \A n \in 1..(Len(tried) - 1) : ~tried[n]
                /\ work[i].st = "done" <=> (Len(tried) > 0 /\ tried[Len(tried)])
                /\ work[i].st = "failed" <=>
                       (Len(tried) = 3 /\ \A n \in 1..3 : ~tried[n])

\* a remote fetch has succeeded at its third attempt
C15_Witness ==
    /\ matched # None
    /\ rargs.val.local_source = ""
    /\ \E i \in DOMAIN work :
          /\ work[i].attempts = <<FALSE, FALSE, TRUE>>
          /\ work[i].st = "done"

\* a remote fetch has failed three times and the restore has failed on it
FetchGivenUp ==
    /\ rpc = "failed"
    /\ rraised = "transfer"
    /\ rargs.val.local_source = ""
    /\ work[consumed].attempts = <<FALSE, FALSE, FALSE>>

\* C16: when a transfer has failed (a remote fetch after its third attempt,
\* a local copy at once) the restore does not go on to the bulk loader: no
\* table is loaded, and once the failure is taken from the pool the
\* restore has failed.
C16_FailedTransferFailsRestore ==
    (matched # None /\ \E i \in DOMAIN work : work[i].st = "failed") =>
        /\ loads = <<>>
        /\ rpc \in {"download", "failed"}
        /\ (\E i \in 1..consumed : work[i].st = "failed") => rpc = "failed"

\* the second local copy failed after the first was counted
C16_Witness ==
    /\ rpc = "failed"
    /\ rraised = "transfer"
    /\ rargs.val.local_source # ""
    /\ consumed = 2
    /\ work[1].st = "done"
    /\ work[2].st = "failed"
    /\ loads = <<>>

\* the loader was run once for each matched table and for no other, on the
\* table's merge directory and all target hosts
LoadedOncePerTable ==
    /\ {loads[n].table : n \in DOMAIN loads} = matched.val.tables
    /\ \A n, k \in DOMAIN loads : loads[n].table = loads[k].table => n = k
    /\ \A n \in DOMAIN loads :
          /\ loads[n].path = <<rargs.val.merge_dir, rargs.val.keyspace, loads[n].table>>
          /\ loads[n].nodes = rargs.val.target_hosts

\* C17: the bulk loader is run only after every transfer has completed,
\* and a restore whose matched files all transferred successfully ends
\* with the loader run exactly once for each matched table, on that
\* table's merge directory and the full set of target hosts.
C17_LoaderOncePerTable ==
    /\ loads # <<>> => AllTransferred
    /\ (AllTransferred /\ rpc \in {"done", "failed"}) =>
          (rpc = "done" /\ LoadedOncePerTable)

\* the same for a restore from local files that are not all empty
LoaderOncePerTableFromLocal ==
    /\ loads # <<>> => AllTransferred
    /\ (/\ AllTransferred
        /\ rpc \in {"done", "failed"}
        /\ rargs.val.local_source # ""
        /\ matched.val.total_size > 0
        /\ rraised # "loader") =>
          (rpc = "done" /\ LoadedOncePerTable)

\* a restore from local files has loaded two tables
LocalRestoreLoaded ==
    /\ rpc = "done"
    /\ AllTransferred
    /\ Len(loads) = 2
    /\ LoadedOncePerTable

\* C18: a restore in which a bulk-loader invocation failed, by ending
\* with a status other than zero or by raising, has not ended well: it
\* has failed with the loader's failure.
C18_LoaderFailureFailsRestore ==
    (\E n \in DOMAIN loads : loads[n].outcome # "zero") =>
        (rpc # "done" /\ (rpc = "failed" => rraised = "loader"))

\* an invocation that raised does fail the restore
LoaderExceptionFailsRestore ==
    (\E n \in DOMAIN loads : loads[n].outcome = "raised") =>
        (rpc = "failed" /\ rraised = "loader")

\* the loader raised for the second table
LoaderRaised ==
    /\ rpc = "failed"
    /\ rraised = "loader"
    /\ Len(loads) = 2
    /\ loads[2].outcome = "raised"

\* the files the restore looks through: the local files, or the keys of
\* the bucket under the snapshot's directory
Stored ==
    IF rargs.val.local_source # "" THEN files
    ELSE UnderPrefix(files, SnapshotBasePath(snapshot.val))

\* a stored path <host>/.../<keyspace>/<table>/<file> of a declared host
\* and the requested keyspace
OfRequestedKeyspace(key) ==
    /\ Len(key.path) >= RootLen + 5
    /\ \E h \in DOMAIN rargs.val.hosts : rargs.val.hosts[h] = SourceHostOf(key)
    /\ KeyspaceOf(key) = rargs.val.keyspace

PassesTableFilter(key) ==
    rargs.val.table = "" \/ TableOf(key) = rargs.val.table

\* C19: of the stored files of the requested keyspace and a declared host,
\* all are matched when no table is asked for and exactly those of table T
\* when T is asked for; no matched file is of another keyspace or table;
\* and the matched tables are the table segments of the matched files.
C19_DiscoveryByTable ==
    matched # None =>
        LET keys == matched.val.keys
        IN  /\ \A n \in DOMAIN Stored :
                  (OfRequestedKeyspace(Stored[n]) /\ PassesTableFilter(Stored[n]))
                      => \E i \in DOMAIN keys : keys[i] = Stored[n]
            /\ \A i \in DOMAIN keys :
                  /\ \E n \in DOMAIN Stored : Stored[n] = keys[i]
                  /\ Len(keys[i].path) >= RootLen + 5
                  /\ KeyspaceOf(keys[i]) = rargs.val.keyspace
                  /\ PassesTableFilter(keys[i])
            /\ matched.val.tables = {TableOf(keys[i]) : i \in DOMAIN keys}

\* table cf1 was asked for and the file of cf2 was left out
C19_Witness ==
    /\ matched # None
    /\ rargs.val.table = "cf1"
    /\ Len(matched.val.keys) = 1
    /\ matched.val.tables = {"cf1"}
    /\ \E n \in DOMAIN Stored :
          OfRequestedKeyspace(Stored[n]) /\ TableOf(Stored[n]) = "cf2"

\* no table was asked for and the files of cf1 and cf2 were both matched
BothTablesMatched ==
    /\ matched # None
    /\ rargs.val.table = ""
    /\ matched.val.tables = {"cf1", "cf2"}
    /\ Len(matched.val.keys) = 2

\* every finished transfer gave the size of its item to the loop, and after
\* the last result of a batch without failure the counter is the sum
SizesCounted ==
    /\ \A i \in DOMAIN work :
          work[i].st = "done" => work[i].result = Some(matched.val.keys[i].size)
    /\ (AllTransferred /\ consumed = Len(work)) =>
          read_bytes = SumSizes(matched.val.keys)

\* C20: every successful transfer, local copy or remote fetch, reports the
\* size of its item, and whatever the order in which the transfers end the
\* counter of a fully successful batch, once every result is taken, is the
\* sum of the sizes of the transferred items.
C20_SizeReportedAndSummed ==
    matched # None => SizesCounted

\* the same for local copies only
LocalCopiesCounted ==
    (matched # None /\ rargs.val.local_source # "") => SizesCounted

\* two local copies that ended in either order were counted
TwoCopiesCounted ==
    /\ matched # None
    /\ rargs.val.local_source # ""
    /\ consumed = 2
    /\ Len(work) = 2
    /\ read_bytes = 3
    /\ rpc = "download"

----------------------------------------------------------------------------
(* Further properties of the backup command, under Spec *)

ClearBackupsSeen ==
    \/ pc = "clear_backups"
    \/ \E i \in DOMAIN trace : IsStep(trace[i], "clear_node_backups")
    \/ \E j \in running : j.call.task = "clear_node_backups"

\* C21: in a full run with delete_backups, clear-node-backups is run on the
\* cluster only when the data path and the snapshot's keyspaces are both
\* set; when either is empty no host runs it, and the run goes on with the
\* steps that follow, through the snapshot and the upload to its end.
C21_ClearBackupsNeedsPathAndKeyspaces ==
    (called = "snapshot" /\ opts.delete_backups) =>
        /\ ClearBackupsSeen =>
              (args.cassandra_data_path # "" /\ Len(snapshot.val.keyspaces) > 0)
        /\ (args.cassandra_data_path = "" \/ Len(snapshot.val.keyspaces) = 0) =>
              /\ ~ClearBackupsSeen
              /\ trace # <<>> =>
                    Rank(trace[1]) = IF opts.delete_old_snapshots THEN 2 ELSE 3
              /\ pc = "done" => (HasRank(3) /\ HasRank(4) /\ HasRank(7))

\* a full run with delete_backups and no data path has ended well without
\* clearing the backups
C21_Witness ==
    /\ called = "snapshot"
    /\ opts.delete_backups
    /\ args.cassandra_data_path = ""
    /\ Len(snapshot.val.keyspaces) > 0
    /\ pc = "done"
    /\ ~ClearBackupsSeen

\* the same with a data path and no keyspaces
ClearSkippedWithoutKeyspaces ==
    /\ called = "snapshot"
    /\ opts.delete_backups
    /\ args.cassandra_data_path # ""
    /\ Len(snapshot.val.keyspaces) = 0
    /\ pc = "done"
    /\ ~ClearBackupsSeen

\* the "backups" directories of the keyspaces of a snapshot on a node, of
\* its table when it has one
BackupsDirsOf(keyspaces, table) ==
    UNION {{BackupsDir(keyspaces[i], t) :
                t \in IF table # "" THEN {table} ELSE NodeTables(keyspaces[i])} :
           i \in DOMAIN keyspaces}

\* C25: clear_node_backups, run on a node for a snapshot with keyspaces
\* K1..Kn, empties the "backups" directories of every Ki (those of the
\* snapshot's table when it has one).
C25_AllKeyspacesCleared ==
    /\ \A j \in running :
          j.call.task = "clear_node_backups" =>
              j.call.dirs = BackupsDirsOf(snapshot.val.keyspaces, snapshot.val.table)
    /\ \A i \in DOMAIN trace :
          IsStep(trace[i], "clear_node_backups") =>
              trace[i].dirs = BackupsDirsOf(snapshot.val.keyspaces, snapshot.val.table)

\* the directories emptied are those of the last keyspace of the list, and
\* for a single keyspace those of that keyspace
LastKeyspaceCleared ==
    /\ \A i \in DOMAIN trace :
          IsStep(trace[i], "clear_node_backups") =>
              LET ks == snapshot.val.keyspaces
              IN  trace[i].dirs = BackupsDirsOf(<<ks[Len(ks)]>>, snapshot.val.table)
    /\ \A t \in {"", "cf1"} :
          BackupsDirsLoop(<<"ks1">>, t, {}) = BackupsDirsOf(<<"ks1">>, t)

\* clear_node_backups has returned on every host for two keyspaces
BackupsCleared ==
    /\ \E i \in DOMAIN trace :
          /\ IsStep(trace[i], "clear_node_backups")
          /\ trace[i].failed = {}
          /\ trace[i].dirs # {}
    /\ Len(snapshot.val.keyspaces) = 2

\* the commands of an incremental run: flush, and the upload of the
\* incremental backups
IncrementalCall(c) ==
    \/ c.task = "node_start_backup" /\ c.cmd = "flush"
    \/ c.task = "upload_node_backups" /\ c.incremental

\* C23: in an incremental run the first step is a flush that is run on
\* every host; no host is given a snapshot command, a clear-snapshot or a
\* clear-backups at any point of the run, the only other command being
\* the upload of the incremental backups.
C23_IncrementalOnlyFlushes ==
    called = "update_snapshot" =>
        /\ pc \notin SnapshotSteps
        /\ \A j \in running : IncrementalCall(j.call)
        /\ \A i \in DOMAIN trace :
              trace[i].ev = "step" =>
                  /\ IncrementalCall(trace[i])
                  /\ trace[i].hosts = Range(args.hosts)
        /\ pc # "u_flush" =>
              /\ Len(trace) >= 1
              /\ IsStep(trace[1], "node_start_backup")
              /\ trace[1].cmd = "flush"
              /\ trace[1].hosts = Range(args.hosts)

\* an incremental run has flushed and uploaded on two hosts and ended
C23_Witness ==
    /\ called = "update_snapshot"
    /\ pc = "done"
    /\ Cardinality(Range(args.hosts)) = 2
    /\ Len(trace) >= 2
    /\ trace[1].cmd = "flush" /\ trace[1].failed = {}
    /\ IsStep(trace[2], "upload_node_backups")

\* C29: a backup command without --new-snapshot passes keep_new_snapshot,
\* delete_old_snapshots and delete_backups as false whatever was given;
\* when no compatible snapshot exists and it makes a full run, that run
\* has no clear-backups and no clear-old-snapshots step and clears the new
\* snapshot from the nodes after the upload.
C29_FlagsIgnoredWithoutNewSnapshot ==
    (pc # "start" /\ ~args.new_snapshot) =>
        /\ opts = [keep_new_snapshot |-> FALSE, delete_old_snapshots |-> FALSE,
                   delete_backups |-> FALSE]
        /\ called = "snapshot" =>
              /\ pc \notin {"clear_backups", "clear_old"}
              /\ ~HasRank(1) /\ ~HasRank(2)
              /\ \A j \in running :
                    j.call.task = "clear_node_snapshot" => j.call.name = snapshot.val.name
              /\ \A i \in DOMAIN trace :
                    IsStep(trace[i], "upload_node_backups") =>
                        IF i = Len(trace) THEN pc = "clear_new"
                        ELSE IsClearOf(trace[i + 1], snapshot.val.name)
              /\ pc = "done" => HasRank(5)

\* a command without --new-snapshot and with the three flags set found no
\* compatible snapshot, made a full run and cleared the new snapshot
C29_Witness ==
    /\ ~args.new_snapshot
    /\ args.keep_new_snapshot
    /\ args.delete_old_snapshots
    /\ args.delete_incremental_backups
    /\ called = "snapshot"
    /\ pc = "done"
    /\ IsStep(trace[1], "node_start_backup")
    /\ \E i \in DOMAIN trace : IsClearOf(trace[i], snapshot.val.name)

----------------------------------------------------------------------------
(* Further properties of the restore command, under SpecRestore *)

\* what is in the merge directory of the keyspace: directories and files
InKeyspaceDir == {x \in merge : x.dst[1] = rargs.val.merge_dir
                                /\ x.dst[2] = rargs.val.keyspace}

MergedDirs == {x \in InKeyspaceDir : Len(x.dst) = 3}
MergedFiles == {x \in InKeyspaceDir : Len(x.dst) = 4}

\* C22: from the moment the transfers begin the keyspace's merge directory
\* holds exactly one directory per matched table and nothing of a previous
\* run: before the first transfer starts the directories are empty, and
\* every file found there later was opened by a transfer of this run and
\* holds only what such transfers wrote.
C22_MergeDirRecreated ==
    matched # None =>
        /\ MergedDirs = {MergeDir(rargs.val.merge_dir, rargs.val.keyspace, t) :
                            t \in matched.val.tables}
        /\ (\A i \in DOMAIN work : work[i].st = "queued") => MergedFiles = {}
        /\ \A x \in MergedFiles :
              /\ \E i \in DOMAIN work : work[i].st # "queued" /\ x.dst = DstOf(i)
              /\ \A j \in DOMAIN x.content :
                    \/ x.content[j] = Hole
                    \/ \E i \in DOMAIN work : /\ work[i].st # "queued"
                                              /\ x.content[j] = i
                                              /\ x.dst = DstOf(i)

\* the transfers are about to begin in a directory that was recreated for
\* one table, beside the untouched directory of another keyspace
C22_Witness ==
    /\ rpc = "download"
    /\ Len(work) > 0
    /\ \A i \in DOMAIN work : work[i].st = "queued"
    /\ InKeyspaceDir = {MergeDir("merge", "ks1", "cf1")}
    /\ StaleFile("merge", "ks2", "cf1") \in merge

\* the merge directory holds the file of matched key i, whole
Merged(i) ==
    \E x \in MergedFiles : x.content = KeyContent(matched.val.keys, i)

\* every transfer has ended well and a file of the merge directory is the
\* whole of no key: two transfers wrote to it at the same time
TornFile ==
    /\ Len(work) > 0
    /\ \A i \in DOMAIN work : work[i].st = "done"
    /\ \E x \in MergedFiles :
          /\ \A i \in DOMAIN work : x.content # KeyContent(matched.val.keys, i)
          /\ \E i, k \in DOMAIN work, a, b \in DOMAIN x.content :
                i # k /\ x.content[a] = i /\ x.content[b] = k

\* a copy raised after its last chunk and left the whole of its key
WholeAfterFailedCopy ==
    /\ rargs # None
    /\ rargs.val.local_source # ""
    /\ \E i \in DOMAIN work :
          /\ work[i].st = "failed"
          /\ NChunks(matched.val.keys[i]) > 0
          /\ Merged(i)

\* os.walk yielded the files of the host declared second before those of
\* the host declared first
LaterHostWalkedFirst ==
    /\ matched # None
    /\ rargs.val.local_source # ""
    /\ rargs.val.hosts = <<"h1", "h2">>
    /\ Len(matched.val.keys) = 2
    /\ SourceHostOf(matched.val.keys[1]) = "h2"

\* a copy failed before its destination was opened and left no file
CopyFailedWithoutFile ==
    /\ rargs # None
    /\ rargs.val.local_source # ""
    /\ Len(work) = 1
    /\ work[1].st = "failed"
    /\ MergedFiles = {}

\* a file of a directory whose name begins with the snapshot's name is
\* among the matched keys
SiblingFileMatched ==
    /\ matched # None
    /\ rargs.val.local_source = ""
    /\ \E i \in DOMAIN matched.val.keys :
          matched.val.keys[i].path[2] \in {SiblingDirs[1], SiblingDirs[2]}

\* the restore command has read the registry once, through get_latest
RegistryReadCounted ==
    /\ rargs # None
    /\ rargs.val.command
    /\ ret.op = "get_latest"
    /\ ncalls = 1
    /\ listings = 1

\* C26: after a restore in which all transfers succeeded the merge
\* directory of the keyspace holds one file for each matched file, with
\* that file's content: as many files as were matched.
C26_MergeHoldsEveryFile ==
    AllTransferred =>
        /\ Cardinality(MergedFiles) = Len(matched.val.keys)
        /\ \A i \in DOMAIN work : Merged(i)

\* the destinations of the matched files are distinct
DistinctDestinations ==
    \A i, k \in DOMAIN matched.val.keys :
        i # k => dst_from_key(matched.val.keys[i].path, rargs.val.merge_dir,
                              rargs.val.hosts, rargs.val.keyspace, rargs.val.table)
                 # dst_from_key(matched.val.keys[k].path, rargs.val.merge_dir,
                                rargs.val.hosts, rargs.val.keyspace, rargs.val.table)

\* the same, for matched files that the naming does not bring together
MergeHoldsEveryFileWhenDistinct ==
    (AllTransferred /\ DistinctDestinations) =>
        /\ Cardinality(MergedFiles) = Len(matched.val.keys)
        /\ \A i \in DOMAIN work : Merged(i)

\* two files of two tables were merged
TwoFilesMerged ==
    /\ AllTransferred
    /\ Len(work) = 2
    /\ Cardinality(MergedFiles) = 2
    /\ matched.val.tables = {"cf1", "cf2"}

\* the list a SnapshotCollection on the bucket would hold
Registry == ReadS3(None, store, s3_base_path)

\* the restore command has got past the lookup of the snapshot, or failed
CommandDone ==
    /\ rargs # None
    /\ rargs.val.command
    /\ rpc # "command"

\* C27: unless a local source and hosts are both given, restore_backup
\* hands to the worker the most recent snapshot of the registry for
\* 'LATEST' and, for another name N, the snapshot of the registry named N;
\* when no hosts are given the worker restores from that snapshot's hosts.
C27_SnapshotResolved ==
    CommandDone =>
        LET a == rargs.val
            named == SelectSeq(Registry.snapshots.val,
                               LAMBDA x : x.name = a.snapshot_name)
        IN  IF a.local_source # "" /\ a.args_hosts # <<>>
            THEN snapshot = None /\ a.hosts = a.args_hosts
            ELSE /\ (/\ a.snapshot_name = "LATEST"
                     /\ ~Registry.raised
                     /\ Len(Registry.snapshots.val) > 0) =>
                        snapshot = Some(Registry.snapshots.val[1])
                 /\ (a.snapshot_name # "LATEST" /\ Len(named) > 0) =>
                        snapshot = Some(named[1])
                 /\ snapshot # None =>
                        a.hosts = IF a.args_hosts # <<>> THEN a.args_hosts
                                  ELSE snapshot.val.hosts

\* the same for the name 'LATEST' only
LatestResolved ==
    (CommandDone /\ rargs.val.snapshot_name = "LATEST") =>
        LET a == rargs.val
        IN  IF a.local_source # "" /\ a.args_hosts # <<>>
            THEN snapshot = None /\ a.hosts = a.args_hosts
            ELSE /\ (~Registry.raised /\ Len(Registry.snapshots.val) > 0) =>
                        snapshot = Some(Registry.snapshots.val[1])
                 /\ snapshot # None =>
                        a.hosts = IF a.args_hosts # <<>> THEN a.args_hosts
                                  ELSE snapshot.val.hosts

\* a command without hosts restores from the hosts of the later snapshot
LatestHostsUsed ==
    /\ CommandDone
    /\ rpc = "download"
    /\ rargs.val.args_hosts = <<>>
    /\ snapshot # None
    /\ snapshot.val.name = DirNames[2]
    /\ rargs.val.hosts = HostsB

\* C28: the merge directory is touched only after the files to restore
\* were found: a restore that failed while looking for them (without a
\* snapshot for a restore from the bucket, or on a listing that raised)
\* has failed with an exception and has left the merge directory as it was.
C28_EnumerationBeforeMerge ==
    rargs # None =>
        /\ merge # LeftOver => matched # None
        /\ (matched = None /\ rpc \notin {"command", "start"}) =>
              /\ rpc = "failed"
              /\ rraised # ""
              /\ merge = LeftOver
              /\ work = <<>>
              /\ loads = <<>>

\* a worker without a snapshot failed to list the bucket
C28_Witness ==
    /\ rargs # None
    /\ rargs.val.local_source = ""
    /\ snapshot = None
    /\ ~rargs.val.command
    /\ rpc = "failed"
    /\ rraised = "AttributeError"
    /\ matched = None
    /\ merge = LeftOver

====
